---- MODULE Spec2Model ----
(***************************************************************************)
(* Model of the bank-statement analyzer (BankDataAnalyzer in               *)
(* bank_analysis_phase2.py; ImprovedBankAnalyzer in                        *)
(* bank_analysis_improved.py carries the same preprocessing code).         *)
(*                                                                         *)
(* Texts.  A text is a sequence of characters, each character a string     *)
(* token.  The module is ASCII, so the non-ASCII characters of the source  *)
(* are written as tokens that each stand for ONE character:                *)
(*   "he" U+5408, "ji" U+8BA1 ("he","ji" = the marker heji, total),        *)
(*   "zong" U+603B (zongji, grand total), "xiao" U+5C0F (xiaoji, subtotal),*)
(*   "wei","fen","lei" U+672A U+5206 U+7C7B (weifenlei, uncategorized),    *)
(*   "gong","zi" U+5DE5 U+8D44 (gongzi, salary), "yuan" U+00A5 (the yen /  *)
(*   yuan currency sign).                                                  *)
(*                                                                         *)
(* Numbers.  The source holds amounts as float64.  The model holds an      *)
(* amount as an integer number of hundredths (1234.56 is 123456); the      *)
(* texts of the input sets carry at most two fraction digits, no exponent  *)
(* and no "inf", and amounts far below 2^53 hundredths, so every value of  *)
(* the model is a float64 the source holds exactly as the nearest double   *)
(* of the decimal text.  A float NaN is the record NaN below.              *)
(*                                                                         *)
(* Columns (source name -> field of the model):                            *)
(*   jiaoyi riqi (transaction date text)      -> date_text                 *)
(*   jizhang jin'e (shouru) (income text)     -> income_text               *)
(*   jizhang jin'e (zhichu) (expense text)    -> expense_text              *)
(*   yu'e (balance text)                      -> balance_text              *)
(*   zhaiyao (summary)                        -> summary                   *)
(*   riqi -> date, shouru -> income, zhichu -> expense,                    *)
(*   jiaoyi leixing -> direction, jing jin'e -> net_amount,                *)
(*   jiaoyi leibie -> category, nianfen -> year, yuefen -> month,          *)
(*   nianyue -> year_month, jidu -> quarter, zhanghu yu'e -> balance       *)
(*   jiaoyi xiangqing (detail text)           -> detail                    *)
(*   jiaoyi changsuo (location text)          -> location                  *)
(*   duifang huming (counterparty name)       -> counterparty              *)
(*   zidong fenlei -> auto_category, xingqiji -> weekday,                  *)
(*   shifou gongzuori -> is_weekday                                        *)
(*                                                                         *)
(* ExtendedBankAnalyzer (bank_analysis_extended.py) inherits the object    *)
(* and adds the keyword classification and the frequency and counterparty  *)
(* analyses.  The characters of its category names and keywords are the    *)
(* tokens "uXXXX" of their code points.                                    *)
(***************************************************************************)
EXTENDS Integers, Sequences, FiniteSets, TLC

VARIABLES raw_data, clean_data, out, sort_kernel

vars == <<raw_data, clean_data, out, sort_kernel>>

(* Longest input file (rows) of the multi-row input sets. *)
MaxRows == 2

----------------------------------------------------------------------------
(* Cells of a loaded frame: a missing value (NaN), a text, or a float.     *)

Null == [k |-> "null", s |-> <<>>, v |-> 0]

Str(s) == [k |-> "str", s |-> s, v |-> 0]

Flt(v) == [k |-> "num", s |-> <<>>, v |-> v]

(* The cell of a column the file does not have. *)
Absent == [k |-> "absent", s |-> <<>>, v |-> 0]

(* A float result of a numeric parse: a value in hundredths, or NaN. *)
NaN == [nan |-> TRUE, v |-> 0]

Num(v) == [nan |-> FALSE, v |-> v]

(* An unset attribute (None) and a frame: a sequence of rows, and the      *)
(* dtype of each of its optional columns (a column that is no key of       *)
(* dtypes is not in the frame).                                            *)
None == [is_none |-> TRUE, rows |-> <<>>, dtypes |-> [c \in {} |-> ""]]

DF(rows, dtypes) == [is_none |-> FALSE, rows |-> rows, dtypes |-> dtypes]

----------------------------------------------------------------------------
(* Characters *)

Digit == {"0", "1", "2", "3", "4", "5", "6", "7", "8", "9"}

DigitChars == <<"0", "1", "2", "3", "4", "5", "6", "7", "8", "9">>

DigitVal(c) == (CHOOSE i \in 1..10 : DigitChars[i] = c) - 1

Whitespace == {" ", "\t"}

RECURSIVE DigitsValue(_)
DigitsValue(s) ==
    IF s = <<>> THEN 0
    ELSE DigitsValue(SubSeq(s, 1, Len(s) - 1)) * 10 + DigitVal(s[Len(s)])

RECURSIVE NatText(_)
NatText(n) ==
    IF n < 10 THEN <<DigitChars[n + 1]>>
    ELSE NatText(n \div 10) \o <<DigitChars[(n % 10) + 1]>>

AllDigits(s) == \A i \in 1..Len(s) : s[i] \in Digit

----------------------------------------------------------------------------
(* String methods of a text (str.strip, str.contains, str.match,           *)
(* str.replace) and the conversions astype(str), to_numeric, to_datetime.  *)

RECURSIVE lstrip(_)
lstrip(s) ==
    IF s # <<>> /\ Head(s) \in Whitespace THEN lstrip(Tail(s)) ELSE s

RECURSIVE rstrip(_)
rstrip(s) ==
    IF s # <<>> /\ s[Len(s)] \in Whitespace
    THEN rstrip(SubSeq(s, 1, Len(s) - 1))
    ELSE s

(* str.strip() of one text: leading and trailing whitespace removed. *)
strip(s) == rstrip(lstrip(s))

(* Whether pat occurs in s as a substring (re.search of a literal). *)
contains(s, pat) ==
    \E i \in 1..(Len(s) - Len(pat) + 1) : SubSeq(s, i, i + Len(pat) - 1) = pat

(* The footer markers of the pattern heji|zongji|xiaoji. *)
SummaryMarkers == {<<"he", "ji">>, <<"zong", "ji">>, <<"xiao", "ji">>}

(* .str.contains('heji|zongji|xiaoji', na=False) of one cell: a cell that  *)
(* is no text gives NaN, which na=False turns into False.                  *)
str_contains_marker(cell) ==
    cell.k = "str" /\ \E pat \in SummaryMarkers : contains(cell.s, pat)

(* The regular expression ^\d{4}-\d{2}-\d{2} tried at position p of s. *)
DatePatternAt(s, p) ==
    /\ Len(s) >= p + 9
    /\ \A i \in {0, 1, 2, 3, 5, 6, 8, 9} : s[p + i] \in Digit
    /\ s[p + 4] = "-"
    /\ s[p + 7] = "-"

(* Variant of str_match_date: the pattern searched anywhere in the text    *)
(* (re.search in place of re.match).                                       *)
str_search_date(cell) ==
    cell.k = "str" /\ \E p \in 1..Len(cell.s) : DatePatternAt(cell.s, p)

(* .str.match(r'^\d{4}-\d{2}-\d{2}', na=False) of one cell: re.match, so   *)
(* the pattern is tried at the start of the text only.                     *)
str_match_date(cell) == cell.k = "str" /\ DatePatternAt(cell.s, 1)

(* .notna() of one cell. *)
notna(cell) == cell.k # "null"

(* .str.strip() of one cell: a missing value stays missing. *)
str_strip(cell) == IF cell.k = "str" THEN Str(strip(cell.s)) ELSE Null

(* Variant of str_replace_comma: only the first comma removed (n=1). *)
str_replace_first_comma(s) ==
    LET at == {i \in 1..Len(s) : s[i] = ","}
    IN  IF at = {} THEN s
        ELSE LET i == CHOOSE i \in at : \A j \in at : i <= j
             IN  SubSeq(s, 1, i - 1) \o SubSeq(s, i + 1, Len(s))

(* .str.replace(',', '') of one text: every comma removed. *)
RECURSIVE str_replace_comma(_)
str_replace_comma(s) ==
    IF s = <<>> THEN <<>>
    ELSE IF Head(s) = "," THEN str_replace_comma(Tail(s))
    ELSE <<Head(s)>> \o str_replace_comma(Tail(s))

(* repr of a float of v hundredths: "1000.0", "1234.56", "-5.0". *)
FloatText(v) ==
    LET a  == IF v < 0 THEN -v ELSE v
        fp == a % 100
        fr == IF fp % 10 = 0 THEN <<DigitChars[(fp \div 10) + 1]>>
              ELSE <<DigitChars[(fp \div 10) + 1], DigitChars[(fp % 10) + 1]>>
    IN  (IF v < 0 THEN <<"-">> ELSE <<>>) \o NatText(a \div 100) \o <<".">> \o fr

(* .astype(str) of one cell: NaN becomes the text "nan". *)
astype_str(cell) ==
    CASE cell.k = "null" -> <<"n", "a", "n">>
      [] cell.k = "str"  -> cell.s
      [] cell.k = "num"  -> FloatText(cell.v)

(* .replace(['', 'nan', 'NaN'], '0') of one text: whole-value replacement. *)
replace_blank(s) ==
    IF s \in {<<>>, <<"n", "a", "n">>, <<"N", "a", "N">>} THEN <<"0">> ELSE s

(* pd.to_numeric(errors='coerce') of one text, for the decimal grammar     *)
(* [sign] digits [ "." digits ] with at least one digit ("5." and ".5"     *)
(* parse); every other text, the empty text and "nan" included, is NaN.    *)
to_numeric(s) ==
    LET signed == s # <<>> /\ Head(s) \in {"+", "-"}
        body   == IF signed THEN Tail(s) ELSE s
        dots   == {i \in 1..Len(body) : body[i] = "."}
        dot    == IF dots = {} THEN Len(body) + 1 ELSE CHOOSE i \in dots : TRUE
        ip     == SubSeq(body, 1, dot - 1)
        fp     == SubSeq(body, dot + 1, Len(body))
        frac   == CASE Len(fp) = 0 -> 0
                    [] Len(fp) = 1 -> DigitVal(fp[1]) * 10
                    [] Len(fp) = 2 -> DigitsValue(fp)
        mag    == DigitsValue(ip) * 100 + frac
    IN  IF /\ Cardinality(dots) <= 1
           /\ AllDigits(ip)
           /\ AllDigits(fp)
           /\ Len(ip) + Len(fp) >= 1
        THEN Num(IF signed /\ Head(s) = "-" THEN -mag ELSE mag)
        ELSE NaN

(* .fillna(0) of one float. *)
fillna_zero(x) == IF x.nan THEN 0 ELSE x.v

IsLeap(y) == (y % 4 = 0 /\ y % 100 # 0) \/ y % 400 = 0

DaysInMonth(y, m) ==
    IF m = 2 THEN (IF IsLeap(y) THEN 29 ELSE 28)
    ELSE IF m \in {4, 6, 9, 11} THEN 30 ELSE 31

(* Variant of to_datetime: the format matched at the start of the text,    *)
(* what follows it ignored (exact=False).                                  *)
to_datetime_inexact(s) ==
    LET y == DigitsValue(SubSeq(s, 1, 4))
        m == DigitsValue(SubSeq(s, 6, 7))
        d == DigitsValue(SubSeq(s, 9, 10))
    IN  IF /\ DatePatternAt(s, 1)
           /\ m \in 1..12
           /\ d \in 1..DaysInMonth(y, m)
        THEN [ok |-> TRUE, date |-> <<y, m, d>>]
        ELSE [ok |-> FALSE, date |-> <<>>]

(* pd.to_datetime(format='%Y-%m-%d') of one text: the whole text must be   *)
(* YYYY-MM-DD and name a calendar day; anything else raises ValueError.    *)
to_datetime(s) ==
    LET y == DigitsValue(SubSeq(s, 1, 4))
        m == DigitsValue(SubSeq(s, 6, 7))
        d == DigitsValue(SubSeq(s, 9, 10))
    IN  IF /\ Len(s) = 10
           /\ DatePatternAt(s, 1)
           /\ m \in 1..12
           /\ d \in 1..DaysInMonth(y, m)
        THEN [ok |-> TRUE, date |-> <<y, m, d>>]
        ELSE [ok |-> FALSE, date |-> <<>>]

----------------------------------------------------------------------------
(* BankDataAnalyzer.clean_and_preprocess_data, column by column.           *)

(* Lines 66-68: the three row filters on the date text, in order. *)
row_filter(rows) ==
    LET f1 == SelectSeq(rows, LAMBDA r : notna(r.date_text))
        f2 == SelectSeq(f1, LAMBDA r : ~str_contains_marker(r.date_text))
    IN  SelectSeq(f2, LAMBDA r : str_match_date(r.date_text))

(* The .str accessor needs an object column: read_csv gives a column whose *)
(* cells are all missing the dtype float64 (a file without rows gives      *)
(* object columns), and .str on it raises AttributeError.                  *)
is_text_column(cells) ==
    Len(cells) = 0 \/ \E i \in 1..Len(cells) : cells[i].k = "str"

(* Variant of clean_amount: the thousands separators left in the text. *)
clean_amount_keeps_commas(cell) ==
    fillna_zero(to_numeric(replace_blank(strip(astype_str(cell)))))

(* Lines 85-88 (income) and 91-94 (expense): one amount cell. *)
clean_amount(cell) ==
    fillna_zero(to_numeric(str_replace_comma(replace_blank(strip(astype_str(cell))))))

(* Variant of clean_balance: NaN filled with 0 as for the amounts. *)
clean_balance_filled(cell) ==
    Num(fillna_zero(to_numeric(str_replace_comma(strip(astype_str(cell))))))

(* Lines 112-113: one balance cell; NaN is kept. *)
clean_balance(cell) ==
    to_numeric(str_replace_comma(strip(astype_str(cell))))

(* Variant of transaction_type: decided by the sign of the net amount. *)
transaction_type_by_net(income, expense) ==
    IF income - expense > 0 THEN "Income"
    ELSE IF expense - income > 0 THEN "Expense" ELSE "Unknown"

(* Line 97: the lambda of the transaction-type column. *)
transaction_type(income, expense) ==
    IF income > 0 THEN "Income" ELSE IF expense > 0 THEN "Expense" ELSE "Unknown"

(* Variant of net_amount_of: the amount signed by the transaction type. *)
net_amount_by_type(income, expense) == IF income > 0 THEN income ELSE -expense

(* Line 100 *)
net_amount_of(income, expense) == income - expense

(* The fill value of line 103, weifenlei. *)
Uncategorized == <<"wei", "fen", "lei">>

(* Line 103: .fillna(weifenlei).str.strip() of one summary cell. *)
category_of(cell) ==
    strip(IF cell.k = "null" THEN Uncategorized ELSE cell.s)

(* Variant of quarter_of: the month divided before it is shifted. *)
quarter_of_unshifted(month) == (month \div 3) + 1

(* Line 109: .dt.quarter *)
quarter_of(month) == ((month - 1) \div 3) + 1

(* Lines 77-113 for one kept row whose stripped date text parses. *)
normalize_row(r) ==
    LET stripped == str_strip(r.date_text)
        date     == to_datetime(stripped.s).date
        income   == clean_amount(r.income_text)
        expense  == clean_amount(r.expense_text)
    IN  [idx          |-> r.idx,
         date_text    |-> stripped,
         income_text  |-> r.income_text,
         expense_text |-> r.expense_text,
         balance_text |-> r.balance_text,
         summary      |-> r.summary,
         detail       |-> r.detail,
         location     |-> r.location,
         counterparty |-> r.counterparty,
         date         |-> date,
         income       |-> income,
         expense      |-> expense,
         direction    |-> transaction_type(income, expense),
         net_amount   |-> net_amount_of(income, expense),
         category     |-> category_of(r.summary),
         year         |-> date[1],
         month        |-> date[2],
         year_month   |-> <<date[1], date[2]>>,
         quarter      |-> quarter_of(date[2]),
         balance      |-> clean_balance(r.balance_text)]

DateLE(a, b) ==
    \/ a[1] < b[1]
    \/ a[1] = b[1] /\ a[2] < b[2]
    \/ a[1] = b[1] /\ a[2] = b[2] /\ a[3] <= b[3]

(* Series.min() / .max() of the date column; NaT (<<>>) when empty. *)
date_min(df) ==
    IF df = <<>> THEN <<>>
    ELSE LET i == CHOOSE i \in 1..Len(df) :
                      \A j \in 1..Len(df) : DateLE(df[i].date, df[j].date)
         IN  df[i].date

date_max(df) ==
    IF df = <<>> THEN <<>>
    ELSE LET i == CHOOSE i \in 1..Len(df) :
                      \A j \in 1..Len(df) : DateLE(df[j].date, df[i].date)
         IN  df[i].date

RECURSIVE sum_income(_)
sum_income(df) == IF df = <<>> THEN 0 ELSE df[1].income + sum_income(Tail(df))

RECURSIVE sum_expense(_)
sum_expense(df) == IF df = <<>> THEN 0 ELSE df[1].expense + sum_expense(Tail(df))

RECURSIVE sum_net(_)
sum_net(df) == IF df = <<>> THEN 0 ELSE df[1].net_amount + sum_net(Tail(df))

(* Lines 71-73: what the filter reports. *)
filter_report(rows, kept) ==
    << <<"original_count", Len(rows)>>,
       <<"filtered_count", Len(kept)>>,
       <<"removed_count", Len(rows) - Len(kept)>> >>

(* Line 79: the reported date range. *)
date_report(df) == << <<"date_min", date_min(df)>>, <<"date_max", date_max(df)>> >>

(* Lines 123-129: what a completed cleaning reports. *)
clean_report(df) ==
    << <<"shape_rows", Len(df)>>,
       <<"income_records", Len(SelectSeq(df, LAMBDA t : t.income > 0))>>,
       <<"expense_records", Len(SelectSeq(df, LAMBDA t : t.expense > 0))>>,
       <<"total_income", sum_income(df)>>,
       <<"total_expense", sum_expense(df)>>,
       <<"net_balance", sum_net(df)>> >>

Raised(error, printed) ==
    [raised |-> TRUE, error |-> error, df |-> <<>>, printed |-> printed]

Completed(df, printed) ==
    [raised |-> FALSE, error |-> "", df |-> df, printed |-> printed]

(* Lines 59-131 on the loaded rows: the outcomes of the call.  With no row *)
(* kept, df.apply(axis=1) of line 97 returns an empty Series or an empty   *)
(* frame depending on the pandas release, and assigning the frame to one   *)
(* column raises ValueError: both outcomes are kept.                       *)
preprocess(rows) ==
    LET kept    == row_filter(rows)
        parses  == \A i \in 1..Len(kept) : to_datetime(strip(kept[i].date_text.s)).ok
        df      == [i \in 1..Len(kept) |-> normalize_row(kept[i])]
        p1      == filter_report(rows, kept)
    IN  IF ~is_text_column([i \in 1..Len(rows) |-> rows[i].date_text])
        THEN {Raised("AttributeError", <<>>)}
        ELSE IF ~parses
        THEN {Raised("ValueError", p1)}
        ELSE IF kept = <<>>
        THEN {Raised("ValueError", p1 \o date_report(<<>>))}
             \cup
             (IF is_text_column([i \in 1..Len(rows) |-> rows[i].summary])
              THEN {Completed(<<>>, p1 \o date_report(<<>>) \o clean_report(<<>>))}
              ELSE {Raised("AttributeError", p1 \o date_report(<<>>))})
        ELSE {Completed(df, p1 \o date_report(df) \o clean_report(df))}

----------------------------------------------------------------------------
(* Code points and the order of texts (the order in which groupby sorts    *)
(* its text keys), and the case folding of re.IGNORECASE.  Ascii lists the *)
(* characters U+0020 to U+007E in order; "grave" is the token of U+0060.   *)

Ascii ==
    <<" ", "!", "\"", "#", "$", "%", "&", "'", "(", ")", "*", "+", ",", "-",
      ".", "/", "0", "1", "2", "3", "4", "5", "6", "7", "8", "9", ":", ";",
      "<", "=", ">", "?", "@", "A", "B", "C", "D", "E", "F", "G", "H", "I",
      "J", "K", "L", "M", "N", "O", "P", "Q", "R", "S", "T", "U", "V", "W",
      "X", "Y", "Z", "[", "\\", "]", "^", "_", "grave", "a", "b", "c", "d", "e",
      "f", "g", "h", "i", "j", "k", "l", "m", "n", "o", "p", "q", "r", "s",
      "t", "u", "v", "w", "x", "y", "z", "{", "|", "}", "~">>

(* The code points of the characters that are written as tokens. *)
NamedCodePoints ==
    [he |-> 21512, ji |-> 35745, zong |-> 24635, xiao |-> 23567,
     wei |-> 26410, fen |-> 20998, lei |-> 31867, gong |-> 24037,
     zi |-> 36164, yuan |-> 165, u4E1A |-> 19994, u4E1C |-> 19996,
     u4E48 |-> 20040, u4E50 |-> 20048, u4E66 |-> 20070, u4E86 |-> 20102,
     u4EA4 |-> 20132, u4EAC |-> 20140, u4ED6 |-> 20182, u4F53 |-> 20307,
     u4FDD |-> 20445, u4FEE |-> 20462, u505C |-> 20572, u5065 |-> 20581,
     u514B |-> 20811, u516C |-> 20844, u5176 |-> 20854, u5177 |-> 20855,
     u51FA |-> 20986, u52A0 |-> 21152, u52A8 |-> 21160, u52B3 |-> 21171,
     u5305 |-> 21253, u5316 |-> 21270, u533B |-> 21307, u5356 |-> 21334,
     u5385 |-> 21381, u53F7 |-> 21495, u54C1 |-> 21697, u5546 |-> 21830,
     u56E2 |-> 22242, u5730 |-> 22320, u573A |-> 22330, u57F9 |-> 22521,
     u57FA |-> 22522, u5802 |-> 22530, u5916 |-> 22806, u591A |-> 22810,
     u5929 |-> 22825, u5986 |-> 22918, u5A31 |-> 23089, u5B50 |-> 23376,
     u5B66 |-> 23398, u5B81 |-> 23425, u5B9D |-> 23453, u5BB6 |-> 23478,
     u5C45 |-> 23621, u5DF4 |-> 24052, u5E02 |-> 24066, u5E78 |-> 24184,
     u5E97 |-> 24215, u5F53 |-> 24403, u5F71 |-> 24433, u5FB7 |-> 24503,
     u5FEB |-> 24555, u620F |-> 25103, u623F |-> 25151, u6240 |-> 25152,
     u6253 |-> 25171, u6295 |-> 25237, u62FC |-> 25340, u6302 |-> 25346,
     u6559 |-> 25945, u65C5 |-> 26053, u65E5 |-> 26085, u661F |-> 26143,
     u670D |-> 26381, u673A |-> 26426, u68C0 |-> 26816, u6B3E |-> 27454,
     u6C14 |-> 27668, u6C34 |-> 27700, u6CB9 |-> 27833, u6D3B |-> 27963,
     u6DD8 |-> 28120, u6E38 |-> 28216, u6EF4 |-> 28404, u706B |-> 28779,
     u71C3 |-> 29123, u7269 |-> 29289, u732B |-> 29483, u7406 |-> 29702,
     u745E |-> 29790, u751F |-> 29983, u7528 |-> 29992, u7535 |-> 30005,
     u7597 |-> 30103, u75AB |-> 30123, u7968 |-> 31080, u79DF |-> 31199,
     u7F51 |-> 32593, u7F8E |-> 32654, u8003 |-> 32771, u80A1 |-> 32929,
     u80AF |-> 32943, u80B2 |-> 32946, u82CF |-> 33487, u82D7 |-> 33495,
     u836F |-> 33647, u878D |-> 34701, u88C5 |-> 35013, u8BAD |-> 35757,
     u8BCA |-> 35786, u8BD5 |-> 35797, u8BDD |-> 35805, u8D22 |-> 36130,
     u8D2D |-> 36141, u8D37 |-> 36151, u8D39 |-> 36153, u8D44 |-> 36164,
     u8D85 |-> 36229, u8EAB |-> 36523, u8F66 |-> 36710, u8FD0 |-> 36816,
     u8FD8 |-> 36824, u9012 |-> 36882, u901A |-> 36890, u9152 |-> 37202,
     u91D1 |-> 37329, u94C1 |-> 38081, u9662 |-> 38498, u9669 |-> 38505,
     u978B |-> 38795, u98DE |-> 39134, u98DF |-> 39135, u9910 |-> 39184,
     u996D |-> 39277, u996E |-> 39278, u997F |-> 39295, u9AD8 |-> 39640,
     u9EA6 |-> 40614]

(* ord(c) of one character. *)
CodePoint(c) ==
    IF c \in DOMAIN NamedCodePoints THEN NamedCodePoints[c]
    ELSE IF c = "\t" THEN 9
    ELSE 31 + (CHOOSE i \in 1..Len(Ascii) : Ascii[i] = c)

(* a < b for two texts, as Python compares str: by code point, a proper    *)
(* prefix first.                                                           *)
RECURSIVE text_lt(_, _)
text_lt(a, b) ==
    IF b = <<>> THEN FALSE
    ELSE IF a = <<>> THEN TRUE
    ELSE IF Head(a) = Head(b) THEN text_lt(Tail(a), Tail(b))
    ELSE CodePoint(Head(a)) < CodePoint(Head(b))

(* The case folding of one character under re.IGNORECASE: the upper-case   *)
(* ASCII letters fold to the lower-case ones, 32 code points above; the    *)
(* other characters of the model have no case.                             *)
UpperCase == {Ascii[i] : i \in 34..59}

CaseFold == [c \in UpperCase |-> Ascii[(CHOOSE i \in 34..59 : Ascii[i] = c) + 32]]

lower_char(c) == IF c \in UpperCase THEN CaseFold[c] ELSE c

lower(s) == [i \in 1..Len(s) |-> lower_char(s[i])]

----------------------------------------------------------------------------
(* Arithmetic of the reports.                                              *)

(* n / d rounded to an integer, ties to the even neighbour (numpy round),  *)
(* for d > 0.                                                              *)
round_div(n, d) ==
    LET q == n \div d
        r == n % d
    IN  IF 2 * r < d THEN q
        ELSE IF 2 * r > d THEN q + 1
        ELSE IF q % 2 = 0 THEN q ELSE q + 1

(* A float64 quotient: a finite value, an infinity or NaN. *)
Finite(v) == [kind |-> "finite", v |-> v]

PlusInf == [kind |-> "inf", v |-> 0]

MinusInf == [kind |-> "-inf", v |-> 0]

NotANumber == [kind |-> "nan", v |-> 0]

(* (a / b * 100).round(1) of two float64 in the same unit, in tenths of a  *)
(* percent.  Division by 0.0 raises nothing in numpy: x / 0 is inf with    *)
(* the sign of x, and 0 / 0 is NaN.  The rounding is that of the exact     *)
(* quotient.                                                               *)
percent_of(a, b) ==
    IF b = 0
    THEN (IF a > 0 THEN PlusInf ELSE IF a < 0 THEN MinusInf ELSE NotANumber)
    ELSE IF b > 0 THEN Finite(round_div(a * 1000, b))
    ELSE Finite(round_div((-a) * 1000, -b))

(* Series.fillna(0) of a quotient: NaN becomes 0, an infinity stays. *)
fillna_rate(x) == IF x.kind = "nan" THEN Finite(0) ELSE x

(* sort_values is called without kind, so it sorts with numpy's argsort of *)
(* kind 'quicksort', which numpy dispatches at run time to a kernel for    *)
(* the processor: the scalar kernel sorts a short array by insertion and   *)
(* keeps equal keys in their order, a vectorised kernel sorts it with a    *)
(* network and does not.  The variable sort_kernel holds the kernel of the *)
(* process: "none" until the first argsort, then the same for every call.  *)
SortKernels == {"ties_kept", "ties_swapped"}

(* Variant of dispatch: the kernel is chosen anew by every argsort. *)
dispatch_per_call(kernel) == SortKernels

(* The kernels an argsort may run on. *)
dispatch(kernel) == IF kernel = "none" THEN SortKernels ELSE {kernel}

(* sort_values(col, ascending=False) of a table: the rows by falling       *)
(* value of col, rows with equal values in the order the argsort of the    *)
(* installation leaves them in.                                            *)
sort_values_descending(s, col, ties) ==
    LET first(j, i) == IF ties = "ties_kept" THEN j < i ELSE j > i
        rank(i) == Cardinality({j \in 1..Len(s) :
                        \/ s[j][col] > s[i][col]
                        \/ (s[j][col] = s[i][col] /\ first(j, i))}) + 1
    IN  [k \in 1..Len(s) |-> s[CHOOSE i \in 1..Len(s) : rank(i) = k]]

(* nlargest(n, col) with keep='first': the n rows with the largest values  *)
(* of col, largest first.  No row for n <= 0.  For n below the number of   *)
(* rows pandas selects and orders them with a mergesort, so rows with      *)
(* equal values keep their order; for n not below it pandas returns        *)
(* sort_values(ascending=False).head(n), sorted with the default kind.     *)
nlargest(s, n, col, ties) ==
    LET rank(i) == Cardinality({j \in 1..Len(s) :
                        \/ s[j][col] > s[i][col]
                        \/ (s[j][col] = s[i][col] /\ j < i)}) + 1
    IN  IF n <= 0 THEN <<>>
        ELSE IF n >= Len(s) THEN sort_values_descending(s, col, ties)
        ELSE [k \in 1..n |-> s[CHOOSE i \in 1..Len(s) : rank(i) = k]]

(* Python date.toordinal: the days from 0001-01-01 (day 1) to the date. *)
RECURSIVE days_before_month(_, _)
days_before_month(y, m) ==
    IF m = 1 THEN 0 ELSE days_before_month(y, m - 1) + DaysInMonth(y, m - 1)

toordinal(date) ==
    LET y == date[1] - 1
    IN  365 * y + (y \div 4) - (y \div 100) + (y \div 400)
        + days_before_month(date[1], date[2]) + date[3]

(* Variant of dayofweek: 0 = Sunday. *)
dayofweek_from_sunday(date) == toordinal(date) % 7

(* .dt.dayofweek: 0 = Monday ... 6 = Sunday (0001-01-01 is a Monday). *)
dayofweek(date) == (toordinal(date) + 6) % 7

(* The order of two Period[M] values (to_period('M')): by their month      *)
(* ordinal.                                                                *)
period_ordinal(p) == p[1] * 12 + (p[2] - 1)

period_lt(p, q) == period_ordinal(p) < period_ordinal(q)

(* The order of the keys of a groupby, by the type of the key column. *)
key_lt(kind, a, b) ==
    CASE kind = "str"    -> text_lt(a, b)
      [] kind = "period" -> period_lt(a, b)
      [] kind = "date"   -> a # b /\ DateLE(a, b)
      [] kind = "bool"   -> ~a /\ b
      [] kind = "int"    -> a < b
      [] kind = "tuple"  -> a[1] < b[1] \/ (a[1] = b[1] /\ a[2] < b[2])

(* groupby sorts its keys: the elements of a finite set of keys as a       *)
(* sequence in rising order.                                               *)
sorted_keys(S, kind) ==
    [k \in 1..Cardinality(S) |->
        CHOOSE x \in S : Cardinality({y \in S : key_lt(kind, y, x)}) = k - 1]

(* A report: what the call returns, the exception it raises ("" for none)  *)
(* and what it prints.                                                     *)
Returned(ret, printed) == [ret |-> ret, error |-> "", printed |-> printed]

Failed(error, printed) == [ret |-> "raised", error |-> error, printed |-> printed]

(* DataFrame.head(n) *)
head(s, n) == SubSeq(s, 1, IF Len(s) < n THEN Len(s) ELSE n)

----------------------------------------------------------------------------
(* ExtendedBankAnalyzer: the keyword classification.                       *)

(* The free-text columns the classification reads, line 57. *)
text_columns == <<"detail", "location", "counterparty">>

(* The value every row starts with, qita (other), line 54. *)
Other == <<"u5176", "u4ED6">>

(* self.category_rules, lines 26-37, in the order of the dict: canyin      *)
(* (dining), jiaotong (transport), gouwu (shopping), yiliao (medical),     *)
(* yule (entertainment), shenghuo (living), jinrong (finance), jiaoyu      *)
(* (education), jiaju (home), fuzhuang (clothing).                         *)
category_rules ==
    <<
      [category |-> <<"u9910", "u996E">>,
       keywords |-> <<
            <<"u7F8E", "u56E2">>, <<"u997F", "u4E86", "u4E48">>,
            <<"u80AF", "u5FB7", "u57FA">>, <<"u9EA6", "u5F53", "u52B3">>,
            <<"u661F", "u5DF4", "u514B">>, <<"u745E", "u5E78">>,
            <<"u9910", "u5385">>, <<"u996D", "u5E97">>,
            <<"u98DF", "u5802">>, <<"u5916", "u5356">>>>],
      [category |-> <<"u4EA4", "u901A">>,
       keywords |-> <<
            <<"u6EF4", "u6EF4">>, <<"u51FA", "u79DF", "u8F66">>,
            <<"u5730", "u94C1">>, <<"u516C", "u4EA4">>,
            <<"u9AD8", "u94C1">>, <<"u706B", "u8F66">>,
            <<"u98DE", "u673A">>, <<"u673A", "u7968">>,
            <<"u52A0", "u6CB9">>, <<"u505C", "u8F66">>, <<"u6253", "u8F66">>>>],
      [category |-> <<"u8D2D", "u7269">>,
       keywords |-> <<
            <<"u6DD8", "u5B9D">>, <<"u5929", "u732B">>,
            <<"u4EAC", "u4E1C">>, <<"u62FC", "u591A", "u591A">>,
            <<"u82CF", "u5B81">>, <<"u5F53", "u5F53">>,
            <<"u8D85", "u5E02">>, <<"u5546", "u573A">>, <<"u8D2D", "u7269">>>>],
      [category |-> <<"u533B", "u7597">>,
       keywords |-> <<
            <<"u533B", "u9662">>, <<"u836F", "u5E97">>,
            <<"u8BCA", "u6240">>, <<"u4F53", "u68C0">>,
            <<"u533B", "u7597">>, <<"u75AB", "u82D7">>, <<"u6302", "u53F7">>>>],
      [category |-> <<"u5A31", "u4E50">>,
       keywords |-> <<
            <<"u7535", "u5F71">>, <<"u6E38", "u620F">>,
            <<"u5A31", "u4E50">>, <<"u5065", "u8EAB">>,
            <<"u8FD0", "u52A8">>, <<"K", "T", "V">>, <<"u65C5", "u6E38">>,
            <<"u9152", "u5E97">>>>],
      [category |-> <<"u751F", "u6D3B">>,
       keywords |-> <<
            <<"u6C34", "u8D39">>, <<"u7535", "u8D39">>,
            <<"u71C3", "u6C14", "u8D39">>, <<"u7269", "u4E1A", "u8D39">>,
            <<"u623F", "u79DF">>, <<"u8BDD", "u8D39">>,
            <<"u7F51", "u8D39">>, <<"u5FEB", "u9012">>>>],
      [category |-> <<"u91D1", "u878D">>,
       keywords |-> <<
            <<"u7406", "u8D22">>, <<"u4FDD", "u9669">>,
            <<"u57FA", "u91D1">>, <<"u80A1", "u7968">>,
            <<"u6295", "u8D44">>, <<"u8FD8", "u6B3E">>, <<"u8D37", "u6B3E">>>>],
      [category |-> <<"u6559", "u80B2">>,
       keywords |-> <<
            <<"u57F9", "u8BAD">>, <<"u5B66", "u8D39">>,
            <<"u4E66", "u8D39">>, <<"u6559", "u80B2">>, <<"u8003", "u8BD5">>>>],
      [category |-> <<"u5BB6", "u5C45">>,
       keywords |-> <<
            <<"u88C5", "u4FEE">>, <<"u5BB6", "u5177">>,
            <<"u5BB6", "u7535">>, <<"u65E5", "u7528", "u54C1">>>>],
      [category |-> <<"u670D", "u88C5">>,
       keywords |-> <<
            <<"u670D", "u88C5">>, <<"u978B", "u5B50">>,
            <<"u5305", "u5305">>, <<"u5316", "u5986", "u54C1">>>>]
    >>

(* case=False of line 63: the search ignores case, so it is the search of  *)
(* the folded keyword in the folded text.  The rules with their keywords   *)
(* folded, and a row with the texts of its free-text columns folded.       *)
folded_rules ==
    [n \in 1..Len(category_rules) |->
        [category |-> category_rules[n].category,
         keywords |-> [k \in 1..Len(category_rules[n].keywords) |->
                          lower(category_rules[n].keywords[k])]]]

folded_texts(t) ==
    [i \in 1..Len(text_columns) |->
        LET cell == t[text_columns[i]]
        IN  IF cell.k = "str" THEN Str(lower(cell.s)) ELSE cell]

(* df[col].str.contains(keyword, case=False, na=False) of one cell, both   *)
(* folded: a cell that is no text gives NaN, which na=False turns into     *)
(* False.  No keyword holds a character that is special in a regular       *)
(* expression.                                                             *)
str_contains_keyword(cell, keyword) ==
    cell.k = "str" /\ contains(cell.s, keyword)

(* Lines 60-64 for one category and one row (its folded texts): whether    *)
(* some mask of the category selects the row.                              *)
rule_selects(texts, dtypes, rule) ==
    \E i \in 1..Len(text_columns) :
        /\ text_columns[i] \in DOMAIN dtypes
        /\ \E k \in 1..Len(rule.keywords) :
              str_contains_keyword(texts[i], rule.keywords[k])

(* Variant of categorize: a category once assigned is kept (first wins). *)
RECURSIVE categorize_first(_, _, _, _)
categorize_first(texts, dtypes, n, current) ==
    IF n > Len(folded_rules) THEN current
    ELSE categorize_first(texts, dtypes, n + 1,
            IF current = Other /\ rule_selects(texts, dtypes, folded_rules[n])
            THEN folded_rules[n].category ELSE current)

(* Lines 59-64 for one row, from the n-th category on: every category that *)
(* selects the row is assigned in turn.                                    *)
RECURSIVE categorize(_, _, _, _)
categorize(texts, dtypes, n, current) ==
    IF n > Len(folded_rules) THEN current
    ELSE categorize(texts, dtypes, n + 1,
            IF rule_selects(texts, dtypes, folded_rules[n])
            THEN folded_rules[n].category ELSE current)

(* Variant of with_auto_category: the value written to the explicit        *)
(* category as well.                                                       *)
with_both_categories(t, c) == [auto_category |-> c, category |-> c] @@ t

(* The row with its cell of the column zidong fenlei set. *)
with_auto_category(t, c) == [auto_category |-> c] @@ t

(* Variant of initial_auto_category: the column created empty. *)
initial_auto_category_empty(t) == <<>>

(* Line 54: the column is created with qita in every row. *)
initial_auto_category(t) == Other

(* .str of a column that is in the frame and is no object column raises    *)
(* AttributeError (line 63).                                               *)
str_accessor_fails(dtypes) ==
    \E i \in 1..Len(text_columns) :
        text_columns[i] \in DOMAIN dtypes /\ dtypes[text_columns[i]] # "object"

(* The distinct values of a column, in the order of their first rows. *)
RECURSIVE unique(_)
unique(s) ==
    IF s = <<>> THEN <<>>
    ELSE LET rest == unique(SubSeq(s, 1, Len(s) - 1))
         IN  IF \E i \in 1..Len(rest) : rest[i] = s[Len(s)] THEN rest
             ELSE Append(rest, s[Len(s)])

(* Line 67: value_counts of the column, most frequent first; it counts the *)
(* values in the order of their first rows and sorts the counts.           *)
value_counts(col, ties) ==
    LET keys   == unique(col)
        counts == [i \in 1..Len(keys) |->
                      [key |-> keys[i],
                       count |-> Len(SelectSeq(col, LAMBDA x : x = keys[i]))]]
    IN  sort_values_descending(counts, "count", ties)

(* Line 74: the expenses above 0 summed by auto category, largest first.   *)
expense_by_auto_category(df, ties) ==
    LET pos  == SelectSeq(df, LAMBDA t : t.expense > 0)
        keys == sorted_keys({pos[i].auto_category : i \in 1..Len(pos)}, "str")
        sums == [i \in 1..Len(keys) |->
                    [key |-> keys[i],
                     total |-> sum_expense(SelectSeq(pos,
                                  LAMBDA t : t.auto_category = keys[i]))]]
    IN  sort_values_descending(sums, "total", ties)

(* Lines 67-82 on the classified rows: the two tables, printed and         *)
(* returned.                                                               *)
auto_category_statistics(df, ties) ==
    LET ret == [category_stats |->
                    value_counts([i \in 1..Len(df) |-> df[i].auto_category], ties),
                expense_by_auto_category |-> expense_by_auto_category(df, ties)]
    IN  Returned(ret, << <<"category_stats", ret.category_stats>>,
                         <<"expense_by_auto_category",
                           ret.expense_by_auto_category>> >>)

(* Lines 51-64: the copy of the frame with its classification. *)
auto_categorize(df, dtypes) ==
    [i \in 1..Len(df) |->
        with_auto_category(df[i],
            categorize(folded_texts(df[i]), dtypes, 1,
                       initial_auto_category(df[i])))]

----------------------------------------------------------------------------
(* The reports of BankDataAnalyzer (bank_analysis_phase2.py, lines         *)
(* 133-267) as functions of the rows of clean_data.                        *)

(* Lines 141-165 *)
overall_summary(df) ==
    LET total_income  == sum_income(df)
        total_expense == sum_expense(df)
        net_balance   == total_income - total_expense
        ret == [total_income         |-> total_income,
                total_expense        |-> total_expense,
                net_balance          |-> net_balance,
                income_transactions  |-> Len(SelectSeq(df, LAMBDA t : t.income > 0)),
                expense_transactions |-> Len(SelectSeq(df, LAMBDA t : t.expense > 0))]
    IN  Returned(ret,
            << <<"overall", ret>>,
               <<"savings_rate",
                 IF total_income > 0 THEN percent_of(net_balance, total_income)
                 ELSE NotANumber>> >>)

(* One row of groupby(key).agg({income: sum, expense: sum, net: sum}) with *)
(* the savings-rate column of lines 182-183 (217-218): net / income * 100, *)
(* rounded to one decimal, NaN filled with 0.                              *)
period_bucket(key, rows) ==
    [key          |-> key,
     income       |-> sum_income(rows),
     expense      |-> sum_expense(rows),
     net_amount   |-> sum_net(rows),
     savings_rate |-> fillna_rate(percent_of(sum_net(rows), sum_income(rows)))]

(* Series.idxmax / idxmin of a column of the table: the key of the first   *)
(* row that holds the extreme value.                                       *)
idxmax(tbl, col) ==
    tbl[CHOOSE i \in 1..Len(tbl) :
            /\ \A j \in 1..Len(tbl) : tbl[j][col] <= tbl[i][col]
            /\ \A j \in 1..(i - 1) : tbl[j][col] < tbl[i][col]].key

idxmin(tbl, col) ==
    tbl[CHOOSE i \in 1..Len(tbl) :
            /\ \A j \in 1..Len(tbl) : tbl[j][col] >= tbl[i][col]
            /\ \A j \in 1..(i - 1) : tbl[j][col] > tbl[i][col]].key

(* Lines 176-183: one bucket per year-month, in the order of the periods. *)
monthly_table(df) ==
    LET keys == sorted_keys({df[i].year_month : i \in 1..Len(df)}, "period")
    IN  [k \in 1..Len(keys) |->
            period_bucket(keys[k], SelectSeq(df, LAMBDA t : t.year_month = keys[k]))]

(* Lines 173-200.  idxmax of an empty column raises ValueError. *)
monthly_trends(df) ==
    LET tbl == monthly_table(df)
    IN  IF tbl = <<>> THEN Failed("ValueError", << <<"monthly", tbl>> >>)
        ELSE Returned(tbl,
                << <<"monthly", tbl>>,
                   <<"max_income_month", idxmax(tbl, "income")>>,
                   <<"min_income_month", idxmin(tbl, "income")>>,
                   <<"max_expense_month", idxmax(tbl, "expense")>>,
                   <<"min_expense_month", idxmin(tbl, "expense")>> >>)

(* Variant of yearly_table: the buckets with the latest year first. *)
yearly_table_descending(df) ==
    LET keys == sorted_keys({df[i].year : i \in 1..Len(df)}, "int")
        n    == Len(keys)
    IN  [k \in 1..n |->
            period_bucket(keys[n + 1 - k],
                          SelectSeq(df, LAMBDA t : t.year = keys[n + 1 - k]))]

(* Lines 211-218: one bucket per year, ascending. *)
yearly_table(df) ==
    LET keys == sorted_keys({df[i].year : i \in 1..Len(df)}, "int")
    IN  [k \in 1..Len(keys) |->
            period_bucket(keys[k], SelectSeq(df, LAMBDA t : t.year = keys[k]))]

(* Lines 226-233: the growth line of the i-th bucket against the one       *)
(* before it.  The operands are numpy float64, so a previous value of 0    *)
(* divides to an infinity or NaN and the line is printed with it.          *)
growth_line(tbl, i) ==
    [prev_year      |-> tbl[i - 1].key,
     curr_year      |-> tbl[i].key,
     income_growth  |-> percent_of(tbl[i].income - tbl[i - 1].income,
                                   tbl[i - 1].income),
     expense_growth |-> percent_of(tbl[i].expense - tbl[i - 1].expense,
                                   tbl[i - 1].expense)]

(* Lines 208-235 *)
yearly_trends(df) ==
    LET tbl == yearly_table(df)
    IN  Returned(tbl,
            << <<"yearly", tbl>> >> \o
            [i \in 1..(Len(tbl) - 1) |-> <<"growth", growth_line(tbl, i + 1)>>])

(* Variant of income_rows: no filter on the amount. *)
income_rows_unfiltered(df) == df

(* df[df[income] > 0] and df[df[expense] > 0] *)
income_rows(df) == SelectSeq(df, LAMBDA t : t.income > 0)

expense_rows(df) == SelectSeq(df, LAMBDA t : t.expense > 0)

(* Lines 246-251 (257-262) on the selected rows: one bucket per category   *)
(* with the sum, the count and the mean of the amount and its share of the *)
(* sums, sorted by the sum, largest first.                                 *)
category_table(rows, col, ties) ==
    LET total(x) == IF col = "income" THEN sum_income(x) ELSE sum_expense(x)
        keys == sorted_keys({rows[i].category : i \in 1..Len(rows)}, "str")
        grp(k) == SelectSeq(rows, LAMBDA t : t.category = keys[k])
        all  == total(rows)
        tbl  == [k \in 1..Len(keys) |->
                    [key   |-> keys[k],
                     total |-> total(grp(k)),
                     count |-> Len(grp(k)),
                     mean  |-> round_div(total(grp(k)), Len(grp(k))),
                     share |-> percent_of(total(grp(k)), all)]]
    IN  sort_values_descending(tbl, "total", ties)

(* Lines 243-267 *)
categories(df, ties) ==
    LET ret == [income_categories  |->
                    category_table(income_rows(df), "income", ties),
                expense_categories |->
                    category_table(expense_rows(df), "expense", ties)]
    IN  Returned(ret, << <<"income_categories", ret.income_categories>>,
                         <<"expense_categories", ret.expense_categories>> >>)

----------------------------------------------------------------------------
(* The reports of ExtendedBankAnalyzer (bank_analysis_extended.py, lines   *)
(* 116-193).                                                               *)

(* Line 125: the number of rows of every date, in date order. *)
daily_transactions(df) ==
    LET keys == sorted_keys({df[i].date : i \in 1..Len(df)}, "date")
    IN  [k \in 1..Len(keys) |->
            [key |-> keys[k],
             count |-> Len(SelectSeq(df, LAMBDA t : t.date = keys[k]))]]

(* Lines 139-140: the row with its weekday columns. *)
with_weekday(t) ==
    LET weekday == dayofweek(t.date)
    IN  [weekday |-> weekday, is_weekday |-> weekday < 5] @@ t

(* Lines 142-144: sum, mean and count of the expense by is_weekday, False  *)
(* before True.                                                            *)
workday_vs_weekend(df) ==
    LET keys == sorted_keys({df[i].is_weekday : i \in 1..Len(df)}, "bool")
        grp(k) == SelectSeq(df, LAMBDA t : t.is_weekday = keys[k])
    IN  [k \in 1..Len(keys) |->
            [key   |-> keys[k],
             total |-> sum_expense(grp(k)),
             mean  |-> round_div(sum_expense(grp(k)), Len(grp(k))),
             count |-> Len(grp(k))]]

(* Lines 122-161 on the rows with their weekday columns. *)
spending_frequency(df, ties) ==
    LET daily == daily_transactions(df)
        ret   == [daily_transactions |-> daily,
                  workday_vs_weekend |-> workday_vs_weekend(df)]
    IN  Returned(ret,
            << <<"daily_transactions", daily>>,
               <<"busiest_days",
                 nlargest(daily, 5, "count", ties)>>,
               <<"workday_vs_weekend", ret.workday_vs_weekend>> >>)

(* Lines 172-176 (183-187) on the selected rows: sum and count of the      *)
(* amount by counterparty name, rows without a name in no group, sorted by *)
(* the sum, largest first, and cut to ten rows.                            *)
counterparty_table(rows, col, ties) ==
    LET total(x) == IF col = "income" THEN sum_income(x) ELSE sum_expense(x)
        named == SelectSeq(rows, LAMBDA t : t.counterparty.k = "str")
        keys  == sorted_keys({named[i].counterparty.s : i \in 1..Len(named)},
                             "str")
        grp(k) == SelectSeq(named, LAMBDA t : t.counterparty.s = keys[k])
        tbl   == [k \in 1..Len(keys) |->
                     [key   |-> keys[k],
                      total |-> total(grp(k)),
                      count |-> Len(grp(k))]]
    IN  head(sort_values_descending(tbl, "total", ties), 10)

(* Lines 169-193.  groupby of a column that is not in the frame raises     *)
(* KeyError.                                                               *)
counterparty_patterns(df, dtypes, ties) ==
    LET ret == [income_counterparties  |->
                    counterparty_table(income_rows(df), "income", ties),
                expense_counterparties |->
                    counterparty_table(expense_rows(df), "expense", ties)]
    IN  IF "counterparty" \notin DOMAIN dtypes THEN Failed("KeyError", <<>>)
        ELSE Returned(ret,
                << <<"income_counterparties", ret.income_counterparties>>,
                   <<"expense_counterparties", ret.expense_counterparties>> >>)

----------------------------------------------------------------------------
(* analyze_top_transactions, analyze_seasonal_patterns and the report      *)
(* methods that call the analyses in sequence.                             *)

(* Lines 278 and 284 of bank_analysis_phase2.py: the columns selected from *)
(* a top row; idx is its index label.                                      *)
top_columns(t, col) ==
    [idx |-> t.idx, date |-> t.date, category |-> t.category,
     amount |-> t[col], counterparty |-> t.counterparty]

(* Lines 271-289: the heading with n, then the two tables.  Selecting a    *)
(* column that the frame lacks raises KeyError after the heading and       *)
(* before any row is printed.                                              *)
top_transactions(df, dtypes, n, ties) ==
    LET top(col, rows) ==
            LET sel == nlargest(rows, n, col, ties)
            IN  [k \in 1..Len(sel) |-> top_columns(sel[k], col)]
        ret == [top_income  |-> top("income", income_rows(df)),
                top_expense |-> top("expense", expense_rows(df))]
    IN  IF "counterparty" \notin DOMAIN dtypes
        THEN Failed("KeyError", << <<"top", n>> >>)
        ELSE Returned(ret, << <<"top", n>>,
                              <<"top_income", ret.top_income>>,
                              <<"top_expense", ret.top_expense>> >>)

(* Lines 93-97 of bank_analysis_extended.py: the sums of every (year,      *)
(* quarter) that has a row.                                                *)
seasonal_analysis(df) ==
    LET keys == sorted_keys({<<df[i].year, df[i].quarter>> : i \in 1..Len(df)},
                            "tuple")
        grp(k) == SelectSeq(df, LAMBDA t : <<t.year, t.quarter>> = keys[k])
    IN  [k \in 1..Len(keys) |->
            [key        |-> keys[k],
             income     |-> sum_income(grp(k)),
             expense    |-> sum_expense(grp(k)),
             net_amount |-> sum_net(grp(k))]]

(* Lines 103-107: the means of every month of the year that has a row,     *)
(* rounded to two decimals.                                                *)
monthly_pattern(df) ==
    LET keys == sorted_keys({df[i].month : i \in 1..Len(df)}, "int")
        grp(k) == SelectSeq(df, LAMBDA t : t.month = keys[k])
    IN  [k \in 1..Len(keys) |->
            [key        |-> keys[k],
             income     |-> round_div(sum_income(grp(k)), Len(grp(k))),
             expense    |-> round_div(sum_expense(grp(k)), Len(grp(k))),
             net_amount |-> round_div(sum_net(grp(k)), Len(grp(k)))]]

(* Lines 90-114 *)
seasonal_patterns(df) ==
    LET ret == [seasonal_analysis |-> seasonal_analysis(df),
                monthly_pattern   |-> monthly_pattern(df)]
    IN  Returned(ret, << <<"seasonal_analysis", ret.seasonal_analysis>>,
                         <<"monthly_pattern", ret.monthly_pattern>> >>)

(* Lines 291-380 of bank_analysis_phase2.py: the charts are drawn from     *)
(* groupings of clean_data and saved; the line of the saved file is        *)
(* printed.                                                                *)
visualizations(df) == Returned("None", << <<"charts_saved", Len(df)>> >>)

(* What calls 1..k of a sequence of calls have printed. *)
RECURSIVE emitted(_, _)
emitted(rs, k) == IF k = 0 THEN <<>> ELSE emitted(rs, k - 1) \o rs[k].printed

(* A sequence of calls made one after the other: the calls up to the first *)
(* that raises are made, their lines are printed, and its exception        *)
(* leaves the caller.                                                      *)
in_sequence(rs) ==
    LET failing == {k \in 1..Len(rs) : rs[k].error # ""}
        last    == IF failing = {} THEN Len(rs)
                   ELSE CHOOSE k \in failing : \A j \in failing : k <= j
    IN  [error   |-> IF failing = {} THEN "" ELSE rs[last].error,
         printed |-> emitted(rs, last),
         made    |-> last]

(* Lines 393-400 of bank_analysis_phase2.py: the analyses of               *)
(* generate_report in the order of their calls; analyze_top_transactions   *)
(* is called with its default n = 10.                                      *)
report_calls(df, dtypes, ties) ==
    << overall_summary(df), monthly_trends(df), yearly_trends(df),
       categories(df, ties), top_transactions(df, dtypes, 10, ties),
       visualizations(df) >>

(* The report reaches the sort of analyze_categories when the three calls  *)
(* before it return.                                                       *)
reaches_sort(df) == monthly_trends(df).error = ""

(* Lines 406-414: the dictionary generate_report returns. *)
report_results(rs) ==
    [overall            |-> rs[1].ret,
     monthly            |-> rs[2].ret,
     yearly             |-> rs[3].ret,
     income_categories  |-> rs[4].ret.income_categories,
     expense_categories |-> rs[4].ret.expense_categories,
     top_income         |-> rs[5].ret.top_income,
     top_expense        |-> rs[5].ret.top_expense]

(* Lines 388-414 on a set clean_data. *)
report(df, dtypes, ties) ==
    LET outcome(rs) ==
            IF in_sequence(rs).error # ""
            THEN Failed(in_sequence(rs).error, in_sequence(rs).printed)
            ELSE Returned(report_results(rs), in_sequence(rs).printed)
    IN  CHOOSE r \in {outcome(rs) : rs \in {report_calls(df, dtypes, ties)}} : TRUE

(* Lines 205-208 of bank_analysis_extended.py: the analyses that           *)
(* generate_extended_report calls after the base report, on the frame as   *)
(* the classification and the weekday columns leave it.                    *)
extended_calls(df, dtypes, ties) ==
    << auto_category_statistics(df, ties), seasonal_patterns(df),
       spending_frequency(df, ties),
       counterparty_patterns(df, dtypes, ties) >>

(* Lines 215-221: the base results with the extended ones. *)
extended_results(base, rs) ==
    [auto_categories |-> rs[1].ret,
     seasonal        |-> rs[2].ret,
     frequency       |-> rs[3].ret,
     counterparties  |-> rs[4].ret] @@ base

----------------------------------------------------------------------------
(* The analyzer object and its operations.                                 *)

(* pd.read_csv: the rows of the file, labelled by a RangeIndex. *)
read_csv(file) ==
    [i \in 1..Len(file) |->
        [idx          |-> i - 1,
         date_text    |-> file[i].date_text,
         income_text  |-> file[i].income_text,
         expense_text |-> file[i].expense_text,
         balance_text |-> file[i].balance_text,
         summary      |-> file[i].summary,
         detail       |-> file[i].detail,
         location     |-> file[i].location,
         counterparty |-> file[i].counterparty]]

(* pd.read_csv: the dtypes of the free-text columns of the file.  A column *)
(* with a text cell is an object column, a column whose cells are all      *)
(* missing (or all numbers) is float64, and a file without rows has object *)
(* columns.  A file says that it lacks a column by an Absent cell in every *)
(* row; a file without rows is taken to have the three columns.            *)
read_csv_dtypes(file) ==
    LET present == {c \in {"detail", "location", "counterparty"} :
                       \A i \in 1..Len(file) : file[i][c].k # "absent"}
    IN  [c \in present |->
            IF file = <<>> \/ \E i \in 1..Len(file) : file[i][c].k = "str"
            THEN "object" ELSE "float64"]

(* BankDataAnalyzer.__init__ *)
Init ==
    /\ raw_data = None
    /\ clean_data = None
    /\ out = [op |-> "__init__", ret |-> "None", error |-> "", printed |-> <<>>]
    /\ sort_kernel = "none"

(* BankDataAnalyzer.load_data, the file read. *)
load_data(file) ==
    /\ raw_data' = DF(read_csv(file), read_csv_dtypes(file))
    /\ out' = [op |-> "load_data", ret |-> "True", error |-> "",
               printed |-> << <<"rows", Len(file)>> >>]
    /\ UNCHANGED <<clean_data, sort_kernel>>

(* BankDataAnalyzer.load_data, read_csv raising: caught, False returned. *)
load_data_fails ==
    /\ out' = [op |-> "load_data", ret |-> "False", error |-> "", printed |-> <<>>]
    /\ UNCHANGED <<raw_data, clean_data, sort_kernel>>

(* BankDataAnalyzer.clean_and_preprocess_data *)
clean_and_preprocess_data ==
    IF raw_data.is_none
    THEN /\ out' = [op |-> "clean_and_preprocess_data", ret |-> "False",
                    error |-> "", printed |-> <<>>]
         /\ UNCHANGED <<raw_data, clean_data, sort_kernel>>
    ELSE \E o \in preprocess(raw_data.rows) :
            /\ clean_data' = IF o.raised THEN clean_data
                              ELSE DF(o.df, raw_data.dtypes)
            /\ out' = [op |-> "clean_and_preprocess_data",
                       ret |-> IF o.raised THEN "raised" ELSE "True",
                       error |-> o.error, printed |-> o.printed]
            /\ UNCHANGED <<raw_data, sort_kernel>>

(* The result of a report call, as out holds it. *)
call(op, r) == [op |-> op] @@ r

(* BankDataAnalyzer.analyze_overall_summary.  On an unset clean_data the   *)
(* subscript of line 141 raises TypeError.                                 *)
analyze_overall_summary ==
    /\ out' = call("analyze_overall_summary",
                   IF clean_data.is_none THEN Failed("TypeError", <<>>)
                   ELSE overall_summary(clean_data.rows))
    /\ UNCHANGED <<raw_data, clean_data, sort_kernel>>

(* BankDataAnalyzer.analyze_monthly_trends.  On an unset clean_data        *)
(* df.groupby of line 176 raises AttributeError.                           *)
analyze_monthly_trends ==
    /\ out' = call("analyze_monthly_trends",
                   IF clean_data.is_none THEN Failed("AttributeError", <<>>)
                   ELSE monthly_trends(clean_data.rows))
    /\ UNCHANGED <<raw_data, clean_data, sort_kernel>>

(* BankDataAnalyzer.analyze_yearly_trends *)
analyze_yearly_trends ==
    /\ out' = call("analyze_yearly_trends",
                   IF clean_data.is_none THEN Failed("AttributeError", <<>>)
                   ELSE yearly_trends(clean_data.rows))
    /\ UNCHANGED <<raw_data, clean_data, sort_kernel>>

(* BankDataAnalyzer.analyze_categories *)
analyze_categories ==
    IF clean_data.is_none
    THEN /\ out' = call("analyze_categories", Failed("TypeError", <<>>))
         /\ UNCHANGED <<raw_data, clean_data, sort_kernel>>
    ELSE \E kernel \in dispatch(sort_kernel) :
            /\ out' = call("analyze_categories",
                           categories(clean_data.rows, kernel))
            /\ sort_kernel' = kernel
            /\ UNCHANGED <<raw_data, clean_data>>

(* ExtendedBankAnalyzer.auto_categorize_transactions.  The rows are        *)
(* classified on a copy, which is assigned to clean_data at line 81; an    *)
(* exception before it leaves clean_data as it was.                        *)
auto_categorize_transactions ==
    IF clean_data.is_none
    THEN /\ out' = call("auto_categorize_transactions", Returned("None", <<>>))
         /\ UNCHANGED <<raw_data, clean_data, sort_kernel>>
    ELSE IF str_accessor_fails(clean_data.dtypes)
    THEN /\ out' = call("auto_categorize_transactions",
                        Failed("AttributeError", <<>>))
         /\ UNCHANGED <<raw_data, clean_data, sort_kernel>>
    ELSE \E kernel \in dispatch(sort_kernel) :
            /\ clean_data' = DF(auto_categorize(clean_data.rows, clean_data.dtypes),
                                [auto_category |-> "object"] @@ clean_data.dtypes)
            /\ out' = call("auto_categorize_transactions",
                           auto_category_statistics(clean_data'.rows, kernel))
            /\ sort_kernel' = kernel
            /\ UNCHANGED raw_data

(* ExtendedBankAnalyzer.analyze_spending_frequency.  df is clean_data      *)
(* itself, so lines 139-140 add the two columns to clean_data.             *)
analyze_spending_frequency ==
    IF clean_data.is_none
    THEN /\ out' = call("analyze_spending_frequency",
                        Failed("AttributeError", <<>>))
         /\ UNCHANGED <<raw_data, clean_data, sort_kernel>>
    ELSE \E kernel \in dispatch(sort_kernel) :
            /\ clean_data' = DF([i \in 1..Len(clean_data.rows) |->
                                    with_weekday(clean_data.rows[i])],
                                [weekday |-> "int32", is_weekday |-> "bool"]
                                @@ clean_data.dtypes)
            /\ out' = call("analyze_spending_frequency",
                           spending_frequency(clean_data'.rows, kernel))
            /\ sort_kernel' = kernel
            /\ UNCHANGED raw_data

(* ExtendedBankAnalyzer.analyze_counterparty_patterns *)
analyze_counterparty_patterns ==
    IF clean_data.is_none
    THEN /\ out' = call("analyze_counterparty_patterns", Failed("TypeError", <<>>))
         /\ UNCHANGED <<raw_data, clean_data, sort_kernel>>
    ELSE \E kernel \in dispatch(sort_kernel) :
            /\ out' = call("analyze_counterparty_patterns",
                           counterparty_patterns(clean_data.rows,
                                                 clean_data.dtypes, kernel))
            /\ sort_kernel' = IF out'.error = "" THEN kernel ELSE sort_kernel
            /\ UNCHANGED <<raw_data, clean_data>>

(* The values of n with which analyze_top_transactions is called: none,    *)
(* fewer than the rows, as many as the rows, and the default.              *)
TopN == {0, 1, 2, 10}

(* BankDataAnalyzer.analyze_top_transactions(n).  On an unset clean_data   *)
(* the subscript of line 278 raises TypeError.                             *)
analyze_top_transactions ==
    \E n \in TopN :
        IF clean_data.is_none
        THEN /\ out' = call("analyze_top_transactions",
                            Failed("TypeError", << <<"top", n>> >>))
             /\ UNCHANGED <<raw_data, clean_data, sort_kernel>>
        ELSE \E kernel \in dispatch(sort_kernel) :
                /\ out' = call("analyze_top_transactions",
                               top_transactions(clean_data.rows,
                                                clean_data.dtypes, n, kernel))
                /\ sort_kernel' = IF out'.error = "" /\ n > 0 THEN kernel
                                  ELSE sort_kernel
                /\ UNCHANGED <<raw_data, clean_data>>

(* ExtendedBankAnalyzer.analyze_seasonal_patterns *)
analyze_seasonal_patterns ==
    /\ out' = call("analyze_seasonal_patterns",
                   IF clean_data.is_none THEN Failed("AttributeError", <<>>)
                   ELSE seasonal_patterns(clean_data.rows))
    /\ UNCHANGED <<raw_data, clean_data, sort_kernel>>

(* Variant of generate_report: the analyses are called without the guard,  *)
(* and on an unset clean_data the first of them raises TypeError.          *)
generate_report_unguarded ==
    \E kernel \in dispatch(sort_kernel) :
        /\ out' = call("generate_report",
                       IF clean_data.is_none THEN Failed("TypeError", <<>>)
                       ELSE report(clean_data.rows, clean_data.dtypes, kernel))
        /\ sort_kernel' = IF ~clean_data.is_none /\ reaches_sort(clean_data.rows)
                          THEN kernel ELSE sort_kernel
        /\ UNCHANGED <<raw_data, clean_data>>

(* BankDataAnalyzer.generate_report: the guard of lines 388-390, then the  *)
(* analyses.                                                               *)
generate_report ==
    IF clean_data.is_none
    THEN /\ out' = call("generate_report", Returned("None", <<>>))
         /\ UNCHANGED <<raw_data, clean_data, sort_kernel>>
    ELSE \E kernel \in dispatch(sort_kernel) :
            /\ out' = call("generate_report",
                           report(clean_data.rows, clean_data.dtypes, kernel))
            /\ sort_kernel' = IF reaches_sort(clean_data.rows) THEN kernel
                              ELSE sort_kernel
            /\ UNCHANGED <<raw_data, clean_data>>

(* ExtendedBankAnalyzer.generate_extended_report: the base report, then    *)
(* the classification and the extended analyses.  On an unset clean_data   *)
(* the base report and auto_categorize_transactions return None, and       *)
(* unpacking None at line 205 raises TypeError.  A base report that        *)
(* completed had rows and the counterparty column, so that once the        *)
(* classification has its text columns no later call raises; clean_data is *)
(* left with the classification and the weekday columns.                   *)
generate_extended_report ==
    IF clean_data.is_none
    THEN /\ out' = call("generate_extended_report", Failed("TypeError", <<>>))
         /\ UNCHANGED <<raw_data, clean_data, sort_kernel>>
    ELSE \E kernel \in dispatch(sort_kernel) :
         \E base \in {report(clean_data.rows, clean_data.dtypes, kernel)} :
            /\ sort_kernel' = IF reaches_sort(clean_data.rows) THEN kernel
                              ELSE sort_kernel
            /\ UNCHANGED raw_data
            /\ IF base.error # ""
               THEN /\ out' = call("generate_extended_report", base)
                    /\ UNCHANGED clean_data
               ELSE IF str_accessor_fails(clean_data.dtypes)
               THEN /\ out' = call("generate_extended_report",
                                   Failed("AttributeError", base.printed))
                    /\ UNCHANGED clean_data
               ELSE /\ clean_data' =
                           DF([i \in 1..Len(clean_data.rows) |->
                                  with_weekday(auto_categorize(clean_data.rows,
                                                   clean_data.dtypes)[i])],
                              [auto_category |-> "object", weekday |-> "int32",
                               is_weekday |-> "bool"] @@ clean_data.dtypes)
                    /\ \E rs \in {extended_calls(clean_data'.rows,
                                                  clean_data'.dtypes, kernel)} :
                          out' = call("generate_extended_report",
                                      Returned(extended_results(base.ret, rs),
                                               base.printed \o emitted(rs, 4)))

----------------------------------------------------------------------------
(* Input files.  A file is a sequence of rows as read_csv delivers them:   *)
(* an empty cell is Null, any other cell of a text column is its text,     *)
(* untrimmed; a cell of a numeric column is a float.                       *)

Row(d, i, e, b, s) ==
    [date_text |-> d, income_text |-> i, expense_text |-> e,
     balance_text |-> b, summary |-> s,
     detail |-> Null, location |-> Null, counterparty |-> Null]

SeqsUpTo(S, n) == UNION {[1..k -> S] : k \in 0..n}

T_date      == <<"2", "0", "2", "4", "-", "0", "3", "-", "0", "5">>
T_leapday   == <<"2", "0", "2", "4", "-", "0", "2", "-", "2", "9">>
T_trailing  == <<"2", "0", "2", "3", "-", "1", "2", "-", "3", "1", " ">>
T_leading   == <<" ">> \o T_date
T_timed     == T_date \o <<" ", "1", "0", ":", "3", "0">>
T_badmonth  == <<"2", "0", "2", "4", "-", "1", "3", "-", "4", "5">>
T_heji      == <<"he", "ji">>
T_subtotal  == T_date \o <<"xiao", "ji">>
T_1000      == <<"1", ",", "0", "0", "0", ".", "0", "0">>
T_1234      == <<"1", ",", "2", "3", "4", ".", "5", "6">>
T_yuan1234  == <<"yuan">> \o T_1234
T_million   == <<"1", ",", "2", "3", "4", ",", "5", "6", "7", ".", "8", "9">>
T_minus5    == <<"-", "5", ".", "0", "0">>
T_abc       == <<"a", "b", "c">>
T_blank     == <<" ", " ">>
T_NaN       == <<" ", "N", "a", "N">>
T_5000      == <<"5", ",", "0", "0", "0", ".", "0", "0">>
T_zero      == <<"0">>
T_seven     == <<"7">>
T_Salary    == <<"S", "a", "l", "a", "r", "y">>
T_gongzi    == <<" ", "gong", "zi", " ">>

(* Rows that differ in the date text: kept, rejected by a filter, or kept  *)
(* by the filters and refused by the strict date parse.                    *)
DateRows ==
    { Row(Str(T_trailing), Str(T_1000), Str(T_1234), Null, Str(T_gongzi)),
      Row(Str(T_leading), Str(T_seven), Null, Null, Null),
      Row(Str(T_timed), Null, Str(T_seven), Null, Null),
      Row(Str(T_badmonth), Str(T_seven), Null, Null, Null),
      Row(Str(T_heji), Str(T_1000), Str(T_1234), Null, Null),
      Row(Str(T_subtotal), Str(T_1000), Str(T_1234), Null, Null),
      Row(Null, Null, Null, Null, Null) }

AmountCells ==
    { Null, Str(T_blank), Str(T_NaN), Str(T_1000), Str(T_1234), Str(T_yuan1234),
      Str(T_million), Str(T_minus5), Str(T_abc), Str(T_zero), Flt(123450) }

BalanceCells == { Str(T_5000), Str(T_abc), Str(T_blank), Str(T_zero), Flt(500000) }

SummaryCells == { Str(T_Salary), Str(T_gongzi), Str(T_blank) }

(* Rows with a valid date that differ in one cell, and rows with both      *)
(* amounts set.                                                            *)
CellRows ==
    {Row(Str(T_date), c, Null, Null, Null) : c \in AmountCells}
    \cup {Row(Str(T_date), Null, c, Null, Null) : c \in AmountCells}
    \cup {Row(Str(T_leapday), Str(T_seven), Null, c, Null) : c \in BalanceCells}
    \cup {Row(Str(T_leapday), Null, Str(T_seven), Null, c) : c \in SummaryCells}
    \cup {Row(Str(T_date), Str(T_1000), Str(T_1234), Str(T_5000), Str(T_Salary)),
          Row(Str(T_date), Str(T_1000), Null, Str(T_5000), Str(T_Salary)),
          Row(Str(T_date), Str(T_1234), Str(T_minus5), Null, Null)}

(* Texts of the free-text columns: meituan waimai (two dining keywords),   *)
(* ditie (a transport keyword), both in one text, "x ktv" (the keyword KTV *)
(* in lower case), "KTV Bar" and a text without a keyword.                 *)
T_monday    == <<"2", "0", "2", "4", "-", "0", "3", "-", "0", "4">>
T_saturday  == <<"2", "0", "2", "4", "-", "0", "3", "-", "0", "9">>
T_fifty     == <<"5", "0", ".", "0", "0">>
T_meituan   == <<"u7F8E", "u56E2", "u5916", "u5356">>
T_ditie     == <<"u5730", "u94C1">>
T_both      == T_ditie \o <<" ">> \o T_meituan
T_ktv       == <<"x", " ", "k", "t", "v">>
T_KTVBar    == <<"K", "T", "V", " ", "B", "a", "r">>
T_acme      == <<"A", "C", "M", "E">>
T_newyear   == <<"2", "0", "2", "5", "-", "0", "1", "-", "0", "1">>

StatementRow(d, i, e, s, detail, location, counterparty) ==
    [date_text |-> d, income_text |-> i, expense_text |-> e,
     balance_text |-> Null, summary |-> s,
     detail |-> detail, location |-> location, counterparty |-> counterparty]

(* Rows of a statement with its free-text columns: dates of two years and  *)
(* of working days and weekend days, rows of one category and of one       *)
(* counterparty with and without an income, keywords of two categories in  *)
(* either column order, and a footer row.                                  *)
KeywordRows ==
    { StatementRow(Str(T_monday), Str(T_1000), Null, Str(T_Salary),
                   Str(T_meituan), Str(T_ditie), Str(T_acme)),
      StatementRow(Str(T_monday), Null, Str(T_1234), Str(T_gongzi),
                   Str(T_ditie), Str(T_meituan), Null),
      StatementRow(Str(T_saturday), Str(T_1234), Str(T_minus5), Str(T_Salary),
                   Null, Str(T_ktv), Str(T_KTVBar)) }

StatementRows ==
    KeywordRows \cup
    { StatementRow(Str(T_trailing), Null, Str(T_fifty), Str(T_Salary),
                   Null, Null, Str(T_acme)),
      StatementRow(Str(T_date), Null, Null, Null,
                   Str(T_acme), Null, Null),
      StatementRow(Str(T_date), Str(T_seven), Str(T_seven), Str(T_gongzi),
                   Str(T_both), Null, Str(T_KTVBar)),
      StatementRow(Str(T_heji), Str(T_1000), Str(T_1234), Null,
                   Str(T_acme), Str(T_acme), Str(T_acme)) }

(* Rows for the reports: two rows of 2024 with the same income, of two     *)
(* categories and two counterparties, the second with the same expense as  *)
(* a row of 2023, and a row of 2025 with an income and no counterparty.    *)
ReportRows ==
    { StatementRow(Str(T_monday), Str(T_1000), Null, Str(T_Salary),
                   Str(T_meituan), Str(T_ditie), Str(T_acme)),
      StatementRow(Str(T_date), Str(T_1000), Str(T_fifty), Str(T_gongzi),
                   Null, Null, Str(T_KTVBar)),
      StatementRow(Str(T_trailing), Null, Str(T_fifty), Str(T_Salary),
                   Null, Null, Str(T_acme)),
      StatementRow(Str(T_newyear), Str(T_seven), Null, Str(T_Salary),
                   Null, Null, Null) }

(* The file without one of its columns. *)
without_column(file, c) ==
    [i \in 1..Len(file) |-> [file[i] EXCEPT ![c] = Absent]]

DateFiles == SeqsUpTo(DateRows, MaxRows)

(* Statements of up to MaxRows rows, and statements of keyword rows that   *)
(* lack one free-text column.                                              *)
StatementFiles ==
    SeqsUpTo(StatementRows, MaxRows)
    \cup {without_column(file, c) :
              file \in SeqsUpTo(KeywordRows, MaxRows),
              c \in {"detail", "location", "counterparty"}}

CellFiles == SeqsUpTo(CellRows, MaxRows)

ReportFiles == SeqsUpTo(ReportRows, MaxRows)

----------------------------------------------------------------------------
(* Spec: the analyzer used as an object, loads and cleanings in any order, *)
(* over the files that differ in their dates.                              *)

Next ==
    \/ \E file \in DateFiles : load_data(file)
    \/ load_data_fails
    \/ clean_and_preprocess_data

Spec == Init /\ [][Next]_vars

(* SpecRun: one run of main() (lines 423-431), one load then the cleaning, *)
(* over the files that differ in their amount, balance and summary cells.  *)

load_once == raw_data.is_none /\ \E file \in CellFiles : load_data(file)

NextRun ==
    \/ load_once
    \/ clean_and_preprocess_data

SpecRun == Init /\ [][NextRun]_vars

(* SpecExt: an ExtendedBankAnalyzer that loads one statement (main, lines  *)
(* 262-266 of bank_analysis_extended.py) and whose cleaning, classification *)
(* and reports are then called in any order.                               *)

load_statement == raw_data.is_none /\ \E file \in StatementFiles : load_data(file)

NextExt ==
    \/ load_statement
    \/ clean_and_preprocess_data
    \/ auto_categorize_transactions
    \/ analyze_overall_summary
    \/ analyze_monthly_trends
    \/ analyze_yearly_trends
    \/ analyze_categories
    \/ analyze_spending_frequency
    \/ analyze_counterparty_patterns

SpecExt == Init /\ [][NextExt]_vars

(* SpecReports: an analyzer that loads one statement of the report rows    *)
(* and whose cleaning, classification, analyses and base report are then   *)
(* called in any order.                                                    *)

load_report_file == raw_data.is_none /\ \E file \in ReportFiles : load_data(file)

NextReports ==
    \/ load_report_file
    \/ clean_and_preprocess_data
    \/ auto_categorize_transactions
    \/ analyze_overall_summary
    \/ analyze_monthly_trends
    \/ analyze_yearly_trends
    \/ analyze_categories
    \/ analyze_top_transactions
    \/ analyze_seasonal_patterns
    \/ analyze_spending_frequency
    \/ analyze_counterparty_patterns
    \/ generate_report

SpecReports == Init /\ [][NextReports]_vars

(* SpecMain: one run of a main program, of bank_analysis_phase2.py (lines  *)
(* 423-434) or of bank_analysis_extended.py (lines 262-273): the load, the *)
(* cleaning if the load returned True, and the report if the cleaning      *)
(* returned True.  The run ends when a call returns False or raises.       *)

main_load ==
    /\ out.op = "__init__"
    /\ \/ \E file \in StatementFiles : load_data(file)
       \/ load_data_fails

main_clean ==
    /\ out.op = "load_data" /\ out.ret = "True"
    /\ clean_and_preprocess_data

main_report ==
    /\ out.op = "clean_and_preprocess_data" /\ out.ret = "True"
    /\ \/ generate_report
       \/ generate_extended_report

NextMain ==
    \/ main_load
    \/ main_clean
    \/ main_report

SpecMain == Init /\ [][NextMain]_vars

----------------------------------------------------------------------------
(* Vocabulary of the properties, stated on the texts themselves and not    *)
(* through the operators of the code above.                                *)

Cleaned == out.op = "clean_and_preprocess_data"

Succeeded == Cleaned /\ out.ret = "True"

Transactions == IF clean_data.is_none THEN {} 
                ELSE {clean_data.rows[i] : i \in 1..Len(clean_data.rows)}

(* The text without its leading and trailing whitespace. *)
Trimmed(s) ==
    LET ink == {i \in 1..Len(s) : s[i] \notin Whitespace}
    IN  IF ink = {} THEN <<>>
        ELSE SubSeq(s, CHOOSE i \in ink : \A j \in ink : i <= j,
                       CHOOSE i \in ink : \A j \in ink : j <= i)

HasMarker(s) ==
    \E i \in 1..(Len(s) - 1) :
        s[i + 1] = "ji" /\ s[i] \in {"he", "zong", "xiao"}

BeginsWithDate(s) ==
    /\ Len(s) >= 10
    /\ {s[1], s[2], s[3], s[4], s[6], s[7], s[9], s[10]} \subseteq Digit
    /\ <<s[5], s[8]>> = <<"-", "-">>

(* A row the specification keeps: date present, no marker, date prefix. *)
IsDatedRow(r) ==
    /\ r.date_text.k = "str"
    /\ ~HasMarker(r.date_text.s)
    /\ BeginsWithDate(r.date_text.s)

MonthLengths(y) ==
    <<31, IF y % 4 = 0 /\ (y % 100 # 0 \/ y % 400 = 0) THEN 29 ELSE 28,
      31, 30, 31, 30, 31, 31, 30, 31, 30, 31>>

TwoDigits(a, b) == 10 * DigitVal(a) + DigitVal(b)

(* The text is exactly YYYY-MM-DD and names a day of the calendar. *)
IsStrictDate(s) ==
    /\ Len(s) = 10
    /\ BeginsWithDate(s)
    /\ TwoDigits(s[6], s[7]) \in 1..12
    /\ LET y == 100 * TwoDigits(s[1], s[2]) + TwoDigits(s[3], s[4])
       IN  TwoDigits(s[9], s[10]) \in 1..MonthLengths(y)[TwoDigits(s[6], s[7])]

(* Some dated row of the loaded file has a date that is no strict date. *)
HasUnparseableDate(rows) ==
    \E i \in 1..Len(rows) :
        IsDatedRow(rows[i]) /\ ~IsStrictDate(Trimmed(rows[i].date_text.s))

SameCells(t, r) ==
    /\ t.idx = r.idx
    /\ t.date_text = Str(Trimmed(r.date_text.s))
    /\ t.income_text = r.income_text
    /\ t.expense_text = r.expense_text
    /\ t.balance_text = r.balance_text
    /\ t.summary = r.summary

(* C1: after a successful cleaning, clean_data holds exactly the loaded    *)
(* rows whose date is present, has no footer marker anywhere and begins    *)
(* with dddd-dd-dd, in their original order; no other row is in it.        *)
C1_RowFilter ==
    Succeeded =>
        LET dated == SelectSeq(raw_data.rows, IsDatedRow)
        IN  /\ Len(clean_data.rows) = Len(dated)
            /\ \A i \in 1..Len(dated) : SameCells(clean_data.rows[i], dated[i])

(* A footer row was dropped from a file of two rows and the other row     *)
(* kept.                                                                   *)
C1_Witness ==
    /\ Succeeded
    /\ Len(raw_data.rows) = 2
    /\ Len(clean_data.rows) = 1
    /\ \E i \in 1..2 : raw_data.rows[i].date_text = Str(T_heji)

(* C2: a cleaning of a file in which a dated row's text is no strict       *)
(* YYYY-MM-DD after trimming raises, and leaves clean_data as it was.      *)
C2_StrictDateAborts ==
    [][(Cleaned' /\ ~raw_data'.is_none /\ HasUnparseableDate(raw_data'.rows))
        => (out'.ret = "raised" /\ clean_data' = clean_data)]_vars

(* A cleaning raised on a time-of-day suffix while clean_data held the     *)
(* transactions of an earlier file.                                        *)
C2_Witness ==
    /\ Cleaned
    /\ out.ret = "raised"
    /\ ~clean_data.is_none
    /\ Len(clean_data.rows) > 0
    /\ \E i \in 1..Len(raw_data.rows) : raw_data.rows[i].date_text = Str(T_timed)

----------------------------------------------------------------------------
(* The numeric reading of a text, by place value.                          *)

WithoutCommas(s) == SelectSeq(s, LAMBDA c : c # ",")

Unsigned(u) == IF u # <<>> /\ u[1] \in {"+", "-"} THEN SubSeq(u, 2, Len(u)) ELSE u

IsNumberText(u) ==
    LET b == Unsigned(u)
    IN  /\ \A i \in 1..Len(b) : b[i] \in Digit \cup {"."}
        /\ Cardinality({i \in 1..Len(b) : b[i] = "."}) <= 1
        /\ \E i \in 1..Len(b) : b[i] \in Digit

RECURSIVE Pow10(_)
Pow10(n) == IF n = 0 THEN 1 ELSE 10 * Pow10(n - 1)

RECURSIVE PlaceSum(_, _, _)
PlaceSum(b, point, i) ==
    IF i > Len(b) THEN 0
    ELSE (IF i = point THEN 0
          ELSE DigitVal(b[i]) *
               Pow10(IF i < point THEN point - i + 1 ELSE 2 - (i - point)))
         + PlaceSum(b, point, i + 1)

(* The value of a number text in hundredths. *)
NumberValue(u) ==
    LET b     == Unsigned(u)
        point == IF \E i \in 1..Len(b) : b[i] = "."
                 THEN CHOOSE i \in 1..Len(b) : b[i] = "."
                 ELSE Len(b) + 1
        mag   == PlaceSum(b, point, 1)
    IN  IF u[1] = "-" THEN -mag ELSE mag

BlankTexts == {<<>>, <<"n", "a", "n">>, <<"N", "a", "N">>}

(* The amount the specification gives a raw amount cell. *)
ExpectedAmount(cell) ==
    CASE cell.k = "null" -> 0
      [] cell.k = "num"  -> cell.v
      [] cell.k = "str"  ->
            LET u == WithoutCommas(Trimmed(cell.s))
            IN  IF Trimmed(cell.s) \in BlankTexts THEN 0
                ELSE IF IsNumberText(u) THEN NumberValue(u) ELSE 0

(* The balance the specification gives a raw balance cell. *)
ExpectedBalance(cell) ==
    CASE cell.k = "null" -> NaN
      [] cell.k = "num"  -> Num(cell.v)
      [] cell.k = "str"  ->
            LET u == WithoutCommas(Trimmed(cell.s))
            IN  IF IsNumberText(u) THEN Num(NumberValue(u)) ELSE NaN

(* An amount cell whose text is unparseable and is coerced to 0. *)
IsCoerced(cell) ==
    /\ cell.k = "str"
    /\ Trimmed(cell.s) \notin BlankTexts
    /\ ~IsNumberText(WithoutCommas(Trimmed(cell.s)))

RECURSIVE CoercedCount(_)
CoercedCount(rows) ==
    IF rows = <<>> THEN 0
    ELSE (IF IsDatedRow(rows[1])
          THEN (IF IsCoerced(rows[1].income_text) THEN 1 ELSE 0)
               + (IF IsCoerced(rows[1].expense_text) THEN 1 ELSE 0)
          ELSE 0)
         + CoercedCount(Tail(rows))

(* The loaded file has a dated row and every dated row a strict date: no   *)
(* date and no lack of rows stops the cleaning.                            *)
DatesAreFine ==
    /\ ~raw_data.is_none
    /\ \E i \in 1..Len(raw_data.rows) : IsDatedRow(raw_data.rows[i])
    /\ ~HasUnparseableDate(raw_data.rows)

(* C3: income and expense of every transaction are 0 for a missing, blank  *)
(* or "nan" cell, the numeric value of the text without its commas when    *)
(* that is a number, and 0 for any other text; whatever the amount cells   *)
(* hold, the cleaning of a file whose dates are fine completes.            *)
C3_AmountNormalization ==
    /\ \A t \in Transactions :
          /\ t.income = ExpectedAmount(t.income_text)
          /\ t.expense = ExpectedAmount(t.expense_text)
    /\ (Cleaned /\ DatesAreFine) => Succeeded

(* A text with two separators was read as its value and an unparseable     *)
(* text as 0.                                                              *)
C3_Witness ==
    /\ Succeeded
    /\ \E t \in Transactions : t.income_text = Str(T_million) /\ t.income = 123456789
    /\ \E t \in Transactions : t.expense_text = Str(T_abc) /\ t.expense = 0

(* C4 as stated: an expense text with a currency sign and thousands        *)
(* separators normalizes to expense = 1234.56.                             *)
C4_CurrencySignParsed ==
    \A t \in Transactions : t.expense_text = Str(T_yuan1234) => t.expense = 123456

(* C4 as amended: the expense text "1,234.56" (thousands separators, no    *)
(* currency sign) normalizes to 1234.56 exactly; with a leading currency   *)
(* sign the text is no number and the expense is 0.                        *)
C4_SeparatorsParsed ==
    \A t \in Transactions :
        /\ t.expense_text = Str(T_1234) => t.expense = 123456
        /\ t.expense_text = Str(T_yuan1234) => t.expense = 0

(* Both texts were normalized in one cleaning. *)
C4_Witness ==
    /\ Succeeded
    /\ \E t \in Transactions : t.expense_text = Str(T_1234)
    /\ \E t \in Transactions : t.expense_text = Str(T_yuan1234)

(* C5: the run reports the number of coerced amount cells, so two          *)
(* completed runs that report the same coerced the same number of cells.   *)
C5_CoercionsReported ==
    Succeeded =>
        \A r \in CellRows :
            (\E o \in preprocess(read_csv(<<r>>)) :
                ~o.raised /\ o.printed = out.printed)
            => CoercedCount(read_csv(<<r>>)) = CoercedCount(raw_data.rows)

(* C6: income and expense of every transaction are non-negative. *)
C6_AmountsNonNegative ==
    \A t \in Transactions : t.income >= 0 /\ t.expense >= 0

(* C7: the balance of every transaction is the numeric value of the        *)
(* balance text without its commas when that is a number, and NaN (not 0)  *)
(* when the cell is missing, blank or unparseable; the cleaning of a file  *)
(* whose dates are fine completes and keeps every dated row.               *)
C7_BalanceNullable ==
    /\ \A t \in Transactions : t.balance = ExpectedBalance(t.balance_text)
    /\ (Cleaned /\ DatesAreFine) =>
          /\ Succeeded
          /\ Len(clean_data.rows) = Len(SelectSeq(raw_data.rows, IsDatedRow))

(* A missing balance stayed NaN beside a parsed one. *)
C7_Witness ==
    /\ Succeeded
    /\ \E t \in Transactions : t.balance_text = Null /\ t.balance = NaN
    /\ \E t \in Transactions : t.balance_text = Str(T_5000) /\ t.balance = Num(500000)

(* C8: net_amount = income - expense for every transaction. *)
C8_NetAmount ==
    \A t \in Transactions : t.net_amount = t.income - t.expense

(* A transaction with both amounts set, whose net amount is negative. *)
C8_Witness ==
    \E t \in Transactions : t.income > 0 /\ t.expense > t.income /\ t.net_amount < 0

(* C9: a transaction with a non-zero income or a non-zero expense is       *)
(* Income or Expense; Unknown only if both are zero.                       *)
C9_UnknownOnlyIfBothZero ==
    \A t \in Transactions :
        t.direction = "Unknown" => (t.income = 0 /\ t.expense = 0)

(* The category the specification gives a raw summary cell. *)
ExpectedCategory(cell) ==
    IF cell.k = "null" \/ Trimmed(cell.s) = <<>> THEN Uncategorized
    ELSE Trimmed(cell.s)

(* C10: category is the trimmed summary, the default for a missing, empty  *)
(* or whitespace-only summary, and never the empty text.                   *)
C10_CategoryDefault ==
    \A t \in Transactions :
        t.category = ExpectedCategory(t.summary) /\ t.category # <<>>

----------------------------------------------------------------------------
(* The scenario row: date "2024-03-05", income "1,000.00", expense empty,  *)
(* balance "5,000.00", summary "Salary".                                   *)
IsScenarioRow(r) ==
    /\ r.date_text = Str(<<"2", "0", "2", "4", "-", "0", "3", "-", "0", "5">>)
    /\ r.income_text = Str(<<"1", ",", "0", "0", "0", ".", "0", "0">>)
    /\ r.expense_text = Null
    /\ r.balance_text = Str(<<"5", ",", "0", "0", "0", ".", "0", "0">>)
    /\ r.summary = Str(<<"S", "a", "l", "a", "r", "y">>)

(* C11: after a successful cleaning every scenario row of the file is      *)
(* exactly one transaction, with income 1000.00, expense 0, net amount     *)
(* 1000.00, direction Income, category "Salary", balance 5000.00, year     *)
(* 2024, month 3 and quarter 1.                                            *)
C11_ScenarioRow ==
    Succeeded =>
        \A i \in 1..Len(raw_data.rows) :
            IsScenarioRow(raw_data.rows[i]) =>
                LET ts == {j \in 1..Len(clean_data.rows) :
                              clean_data.rows[j].idx = raw_data.rows[i].idx}
                IN  /\ Cardinality(ts) = 1
                    /\ \A j \in ts :
                          LET t == clean_data.rows[j]
                          IN  /\ t.income = 100000
                              /\ t.expense = 0
                              /\ t.net_amount = 100000
                              /\ t.direction = "Income"
                              /\ t.category = <<"S", "a", "l", "a", "r", "y">>
                              /\ t.balance = Num(500000)
                              /\ t.year = 2024
                              /\ t.month = 3
                              /\ t.quarter = 1

(* The scenario row was cleaned as the second row of a file. *)
C11_Witness ==
    /\ Succeeded
    /\ Len(raw_data.rows) = 2
    /\ IsScenarioRow(raw_data.rows[2])
    /\ Len(clean_data.rows) = 2

----------------------------------------------------------------------------
(* The derived keys, stated on the digits of the date text.                *)

TextYear(s) == 100 * TwoDigits(s[1], s[2]) + TwoDigits(s[3], s[4])

TextMonth(s) == TwoDigits(s[6], s[7])

TextDay(s) == TwoDigits(s[9], s[10])

(* The day of the week of a calendar date, 0 = Monday, by the month        *)
(* offsets of the perpetual calendar (0 = Sunday before the shift).        *)
MonthOffsets == <<0, 3, 2, 5, 0, 3, 5, 1, 4, 6, 2, 4>>

ExpectedWeekday(y, m, d) ==
    LET yy == IF m < 3 THEN y - 1 ELSE y
        fromSunday == (yy + (yy \div 4) - (yy \div 100) + (yy \div 400)
                       + MonthOffsets[m] + d) % 7
    IN  (fromSunday + 6) % 7

Called(op) == out.op = op /\ out.error = "" /\ ~clean_data.is_none

(* C12: every transaction has year, month and quarter of its date, with    *)
(* quarter = ((month - 1) div 3) + 1 in 1..4; the monthly buckets are in   *)
(* chronological order of their year_month (year first, then month); and   *)
(* once analyze_spending_frequency has run, every transaction has its      *)
(* weekday in 0..6 with 0 = Monday and is_weekday exactly when weekday < 5.*)
C12_DerivedKeys ==
    /\ \A t \in Transactions :
          /\ t.year = TextYear(t.date_text.s)
          /\ t.month = TextMonth(t.date_text.s)
          /\ t.year_month = <<t.year, t.month>>
          /\ t.quarter \in 1..4
          /\ t.quarter = ((t.month - 1) \div 3) + 1
          /\ "weekday" \in DOMAIN t =>
                /\ t.weekday \in 0..6
                /\ t.weekday = ExpectedWeekday(TextYear(t.date_text.s),
                                               TextMonth(t.date_text.s),
                                               TextDay(t.date_text.s))
                /\ t.is_weekday = (t.weekday < 5)
    /\ Called("analyze_spending_frequency") =>
          \A t \in Transactions : {"weekday", "is_weekday"} \subseteq DOMAIN t
    /\ Called("analyze_monthly_trends") =>
          /\ {out.ret[i].key : i \in 1..Len(out.ret)}
                = {t.year_month : t \in Transactions}
          /\ \A i, j \in 1..Len(out.ret) :
                i < j => \/ out.ret[i].key[1] < out.ret[j].key[1]
                         \/ /\ out.ret[i].key[1] = out.ret[j].key[1]
                            /\ out.ret[i].key[2] < out.ret[j].key[2]

(* The monthly table of a Sunday of December 2023 and a Monday of March    *)
(* 2024, loaded in the other order, after the weekday columns were added.  *)
C12_Witness ==
    /\ Called("analyze_monthly_trends")
    /\ Len(out.ret) = 2
    /\ clean_data.rows[1].year_month = <<2024, 3>>
    /\ clean_data.rows[2].year_month = <<2023, 12>>
    /\ \E t \in Transactions :
          "weekday" \in DOMAIN t /\ t.weekday = 0 /\ t.is_weekday
    /\ \E t \in Transactions :
          "weekday" \in DOMAIN t /\ t.weekday = 6 /\ ~t.is_weekday

----------------------------------------------------------------------------
(* The keyword classification, stated on the texts.                        *)

LetterPairs ==
    { <<"A", "a">>, <<"B", "b">>, <<"C", "c">>, <<"D", "d">>, <<"E", "e">>,
      <<"F", "f">>, <<"G", "g">>, <<"H", "h">>, <<"I", "i">>, <<"J", "j">>,
      <<"K", "k">>, <<"L", "l">>, <<"M", "m">>, <<"N", "n">>, <<"O", "o">>,
      <<"P", "p">>, <<"Q", "q">>, <<"R", "r">>, <<"S", "s">>, <<"T", "t">>,
      <<"U", "u">>, <<"V", "v">>, <<"W", "w">>, <<"X", "x">>, <<"Y", "y">>,
      <<"Z", "z">> }

SameLetter(a, b) == a = b \/ <<a, b>> \in LetterPairs \/ <<b, a>> \in LetterPairs

(* The keyword occurs in the text, case ignored. *)
Mentions(s, kw) ==
    \E i \in 1..(Len(s) - Len(kw) + 1) :
        \A j \in 1..Len(kw) : SameLetter(s[i + j - 1], kw[j])

(* The positions in category_rules of the categories of which a keyword    *)
(* occurs in a free-text column of the transaction.                        *)
MatchingCategories(t) ==
    {n \in 1..Len(category_rules) :
        \E c \in {"detail", "location", "counterparty"} :
            /\ t[c].k = "str"
            /\ \E k \in 1..Len(category_rules[n].keywords) :
                  Mentions(t[c].s, category_rules[n].keywords[k])}

ConfiguredCategories ==
    {category_rules[n].category : n \in 1..Len(category_rules)}

Classified(t) == "auto_category" \in DOMAIN t

(* C13: after auto_categorize_transactions every transaction has an        *)
(* auto_category, which is qita (other) or a key of category_rules.        *)
C13_AutoCategoryConfigured ==
    /\ Called("auto_categorize_transactions") =>
          \A t \in Transactions : Classified(t)
    /\ \A t \in Transactions :
          Classified(t) =>
              t.auto_category \in ConfiguredCategories \cup {<<"u5176", "u4ED6">>}

(* A classification that left one transaction qita and gave the other a    *)
(* configured category.                                                    *)
C13_Witness ==
    /\ Called("auto_categorize_transactions")
    /\ \E t \in Transactions : t.auto_category = <<"u5176", "u4ED6">>
    /\ \E t \in Transactions : t.auto_category \in ConfiguredCategories

(* C14: the auto_category of a transaction is the category declared last   *)
(* in category_rules among those with a keyword occurring, case ignored,   *)
(* in one of the three columns, and qita when there is none.               *)
C14_LastRuleWins ==
    \A t \in Transactions :
        Classified(t) =>
            LET ms == MatchingCategories(t)
            IN  IF ms = {} THEN t.auto_category = <<"u5176", "u4ED6">>
                ELSE t.auto_category =
                        category_rules[CHOOSE n \in ms : \A m \in ms : m <= n].category

(* A dining keyword in the detail and a transport keyword in the location  *)
(* of one transaction, the same keywords in the other columns of another:  *)
(* both are jiaotong (transport), the later category.                      *)
C14_Witness ==
    /\ Called("auto_categorize_transactions")
    /\ \E t \in Transactions :
          /\ t.detail = Str(<<"u7F8E", "u56E2", "u5916", "u5356">>)
          /\ t.location = Str(<<"u5730", "u94C1">>)
          /\ t.auto_category = <<"u4EA4", "u901A">>
    /\ \E t \in Transactions :
          /\ t.detail = Str(<<"u5730", "u94C1">>)
          /\ t.location = Str(<<"u7F8E", "u56E2", "u5916", "u5356">>)
          /\ t.auto_category = <<"u4EA4", "u901A">>

(* C15: auto_categorize_transactions on a cleaned statement raises         *)
(* nothing, whatever text is absent: a missing cell, a column of missing   *)
(* cells only, or a column the statement does not have.                    *)
C15_AbsentTextTolerated ==
    (out.op = "auto_categorize_transactions" /\ ~clean_data.is_none)
        => out.error = ""

(* C16: a call of auto_categorize_transactions leaves raw_data, the number *)
(* and order of the transactions and every field of every transaction      *)
(* other than auto_category as they were.                                  *)
C16_OnlyAutoCategoryChanges ==
    [][out'.op = "auto_categorize_transactions" =>
          /\ raw_data' = raw_data
          /\ clean_data'.is_none = clean_data.is_none
          /\ Len(clean_data'.rows) = Len(clean_data.rows)
          /\ \A i \in 1..Len(clean_data.rows) :
                LET old == clean_data.rows[i]
                    new == clean_data'.rows[i]
                IN  /\ DOMAIN new \ {"auto_category"} = DOMAIN old \ {"auto_category"}
                    /\ \A f \in DOMAIN old \ {"auto_category"} : new[f] = old[f]
      ]_vars

(* A classification gave a transaction whose explicit category is Salary   *)
(* the auto_category canyin (dining) or jiaotong (transport).              *)
C16_Witness ==
    /\ Called("auto_categorize_transactions")
    /\ \E t \in Transactions :
          /\ t.category = <<"S", "a", "l", "a", "r", "y">>
          /\ t.auto_category \in {<<"u9910", "u996E">>, <<"u4EA4", "u901A">>}

----------------------------------------------------------------------------
(* The aggregates, stated on the transactions.                             *)

RECURSIVE FieldSum(_, _)
FieldSum(s, f) == IF s = <<>> THEN 0 ELSE s[1][f] + FieldSum(Tail(s), f)

(* A quotient a / b as a percentage rounded to one decimal, in tenths of a *)
(* percent, for b > 0: the nearest integer to 1000 a / b, an exact half    *)
(* going to the even neighbour.                                            *)
IsRoundedPercent(r, a, b) ==
    /\ 2 * (r * b - 1000 * a) <= b
    /\ 2 * (1000 * a - r * b) <= b
    /\ (2 * (r * b - 1000 * a) = b \/ 2 * (1000 * a - r * b) = b) => r % 2 = 0

(* The buckets of a period table have the savings rate of the claim. *)
HasSavingsRates(tbl) ==
    \A i \in 1..Len(tbl) :
        /\ tbl[i].income > 0 =>
              /\ tbl[i].savings_rate.kind = "finite"
              /\ IsRoundedPercent(tbl[i].savings_rate.v,
                                  tbl[i].net_amount, tbl[i].income)
        /\ tbl[i].income = 0 =>
              tbl[i].savings_rate \in {Finite(0), NotANumber}

(* C17: in every monthly and every yearly bucket the savings rate is       *)
(* net / income x 100 when the summed income is above 0, and the undefined *)
(* sentinel (0, or not-a-number) when the summed income is exactly 0,      *)
(* never an infinity.                                                      *)
C17_SavingsRateSentinel ==
    (Called("analyze_monthly_trends") \/ Called("analyze_yearly_trends"))
        => HasSavingsRates(out.ret)

(* The growth lines a yearly report printed. *)
GrowthLines ==
    {out.printed[i][2] : i \in {i \in 1..Len(out.printed) :
                                   out.printed[i][1] = "growth"}}

(* C18: every growth line of analyze_yearly_trends carries a finite        *)
(* income growth and a finite expense growth when the previous bucket's    *)
(* value is not 0, and is flagged undefined, with no quotient computed,    *)
(* when the previous value is 0.                                           *)
C18_GrowthZeroGuard ==
    Called("analyze_yearly_trends") =>
        \A g \in GrowthLines :
            LET prev == out.ret[CHOOSE i \in 1..Len(out.ret) :
                                   out.ret[i].key = g.prev_year]
                curr == out.ret[CHOOSE i \in 1..Len(out.ret) :
                                   out.ret[i].key = g.curr_year]
            IN  /\ prev.income > 0 =>
                      /\ g.income_growth.kind = "finite"
                      /\ IsRoundedPercent(g.income_growth.v,
                                          curr.income - prev.income, prev.income)
                /\ prev.income = 0 => g.income_growth.kind = "undefined"
                /\ prev.expense > 0 =>
                      /\ g.expense_growth.kind = "finite"
                      /\ IsRoundedPercent(g.expense_growth.v,
                                          curr.expense - prev.expense, prev.expense)
                /\ prev.expense = 0 => g.expense_growth.kind = "undefined"

(* The buckets of tbl are those of the transactions with a positive amount *)
(* f, grouped by the column g: one bucket per value of g that has such a   *)
(* transaction, with their sum and their number.  A transaction without a  *)
(* counterparty is in no group.                                            *)
IsPositiveGrouping(tbl, f, g) ==
    LET key(t) == IF g = "category" THEN t.category ELSE t.counterparty.s
        pos == SelectSeq(clean_data.rows,
                   LAMBDA t : /\ t[f] > 0
                              /\ (g = "counterparty" => t.counterparty.k = "str"))
    IN  /\ {tbl[i].key : i \in 1..Len(tbl)} = {key(pos[i]) : i \in 1..Len(pos)}
        /\ \A i, j \in 1..Len(tbl) : tbl[i].key = tbl[j].key => i = j
        /\ \A i \in 1..Len(tbl) :
              LET grp == SelectSeq(pos, LAMBDA t : key(t) = tbl[i].key)
              IN  /\ tbl[i].total = FieldSum(grp, f)
                  /\ tbl[i].count = Len(grp)
                  /\ tbl[i].count > 0

(* C19: the category tables and the counterparty tables hold exactly the   *)
(* groups that have a transaction with a positive amount, each with the    *)
(* sum and the number of its transactions with a positive amount; a group  *)
(* whose amounts are all 0 has no bucket.                                  *)
C19_PositiveAmountsOnly ==
    /\ Called("analyze_categories") =>
          /\ IsPositiveGrouping(out.ret.income_categories, "income", "category")
          /\ IsPositiveGrouping(out.ret.expense_categories, "expense", "category")
    /\ Called("analyze_counterparty_patterns") =>
          /\ IsPositiveGrouping(out.ret.income_counterparties,
                                "income", "counterparty")
          /\ IsPositiveGrouping(out.ret.expense_counterparties,
                                "expense", "counterparty")

(* Two transactions of the category Salary, one with an income and one     *)
(* without: the income table counts one, and the expense table has no      *)
(* bucket of the first one's category.                                     *)
C19_Witness ==
    /\ Called("analyze_categories")
    /\ Len(clean_data.rows) = 2
    /\ \A t \in Transactions : t.category = <<"S", "a", "l", "a", "r", "y">>
    /\ \E t \in Transactions : t.income = 0 /\ t.expense > 0
    /\ \E t \in Transactions : t.income > 0 /\ t.expense = 0
    /\ Len(out.ret.income_categories) = 1
    /\ out.ret.income_categories[1].count = 1
    /\ out.ret.expense_categories[1].count = 1

(* C20: the sums of the buckets of the expense-category table add up to    *)
(* total_expense of analyze_overall_summary, and those of the              *)
(* income-category table to total_income.                                  *)
C20_CategoryPartition ==
    Called("analyze_categories") =>
        /\ FieldSum(out.ret.expense_categories, "total")
              = overall_summary(clean_data.rows).ret.total_expense
        /\ FieldSum(out.ret.income_categories, "total")
              = overall_summary(clean_data.rows).ret.total_income

----------------------------------------------------------------------------
(* Order of the category and counterparty tables. *)

(* A table is sorted by its sums, largest first, and buckets of equal sums *)
(* are in the order of the grouping, which is the order of their keys.     *)
IsStableDescending(tbl) ==
    \A i, j \in 1..Len(tbl) :
        i < j => \/ tbl[i].total > tbl[j].total
                 \/ /\ tbl[i].total = tbl[j].total
                    /\ text_lt(tbl[i].key, tbl[j].key)

(* C21: the category tables and the counterparty tables are ordered by     *)
(* their summed amount, largest first, and buckets with equal sums keep    *)
(* the order of the grouping (a stable sort).                              *)
C21_StableTieOrder ==
    /\ (out.op = "analyze_categories" /\ out.error = "") =>
            /\ IsStableDescending(out.ret.income_categories)
            /\ IsStableDescending(out.ret.expense_categories)
    /\ (out.op = "analyze_counterparty_patterns" /\ out.error = "") =>
            /\ IsStableDescending(out.ret.income_counterparties)
            /\ IsStableDescending(out.ret.expense_counterparties)

----------------------------------------------------------------------------
(* The largest transactions. *)

Min(a, b) == IF a < b THEN a ELSE b

(* tbl is the selection of the n largest positive amounts of column col of *)
(* the rows: as many rows as there are, up to n, all positive, largest     *)
(* first, no row left out that is larger than one selected, and of rows    *)
(* with equal amounts the earlier ones selected and listed first.          *)
IsTopSelection(tbl, rows, col, n) ==
    LET positive == {i \in 1..Len(rows) : rows[i][col] > 0}
        selected == {tbl[k].idx : k \in 1..Len(tbl)}
        left_out == {i \in positive : rows[i].idx \notin selected}
    IN  /\ Len(tbl) = Min(n, Cardinality(positive))
        /\ \A k \in 1..Len(tbl) :
              /\ tbl[k].amount > 0
              /\ \E i \in positive : /\ rows[i].idx = tbl[k].idx
                                      /\ rows[i][col] = tbl[k].amount
        /\ \A k, l \in 1..Len(tbl) :
              k < l => \/ tbl[k].amount > tbl[l].amount
                       \/ /\ tbl[k].amount = tbl[l].amount
                          /\ tbl[k].idx < tbl[l].idx
        /\ \A i \in left_out : \A k \in 1..Len(tbl) :
              \/ rows[i][col] < tbl[k].amount
              \/ /\ rows[i][col] = tbl[k].amount
                 /\ rows[i].idx > tbl[k].idx

(* C22: analyze_top_transactions(n) returns, for the incomes and for the   *)
(* expenses, min(n, number of positive amounts) transactions, all          *)
(* positive, in non-increasing order, none left out that is larger than    *)
(* one returned, and transactions with equal amounts are selected and      *)
(* listed in the order of their rows.                                      *)
C22_TopSelection ==
    (out.op = "analyze_top_transactions" /\ out.error = "") =>
        /\ IsTopSelection(out.ret.top_income, clean_data.rows, "income",
                          out.printed[1][2])
        /\ IsTopSelection(out.ret.top_expense, clean_data.rows, "expense",
                          out.printed[1][2])

----------------------------------------------------------------------------
(* The reports and the cleaned table. *)

ReportingOperations ==
    {"analyze_overall_summary", "analyze_monthly_trends",
     "analyze_yearly_trends", "analyze_categories",
     "analyze_top_transactions", "analyze_seasonal_patterns",
     "analyze_spending_frequency", "analyze_counterparty_patterns"}

(* C23: no reporting operation (overall, monthly, yearly, categories, top, *)
(* seasonal, spending frequency, counterparty) changes clean_data.         *)
C23_ReportsLeaveCleanData ==
    [][out'.op \in ReportingOperations => clean_data' = clean_data]_vars

----------------------------------------------------------------------------
(* A run of main. *)

(* The reports of which the run has printed a part. *)
Emitted == {out.printed[k][1] : k \in 1..Len(out.printed)}

BaseReports ==
    {"overall", "monthly", "yearly", "income_categories",
     "expense_categories", "top_income", "top_expense", "charts_saved"}

(* C24: a run whose report step fails has emitted no report text and no    *)
(* aggregate before the failure, and a run whose report step returns has   *)
(* emitted every report.                                                   *)
C24_AllOrNothing ==
    out.op \in {"generate_report", "generate_extended_report"} =>
        IF out.error # "" THEN out.printed = <<>>
        ELSE BaseReports \subseteq Emitted

----------------------------------------------------------------------------
(* Running the pipeline again. *)

LaterColumns == {"auto_category", "weekday", "is_weekday"}

(* The table without the columns that the classification and the spending  *)
(* frequency add to it.                                                    *)
AsCleaned(df) ==
    DF([i \in 1..Len(df.rows) |->
           [f \in DOMAIN df.rows[i] \ LaterColumns |-> df.rows[i][f]]],
       [f \in DOMAIN df.dtypes \ LaterColumns |-> df.dtypes[f]])

(* The call that is made is the call that was made last, with the same     *)
(* argument.                                                               *)
CalledAgain ==
    /\ out'.op = out.op
    /\ out.op = "analyze_top_transactions" => out'.printed[1] = out.printed[1]

----------------------------------------------------------------------------
(* The guards of the cleaning and of the report. *)

(* C26: clean_and_preprocess_data on an unset raw_data returns False and   *)
(* leaves clean_data as it is; generate_report on an unset clean_data      *)
(* returns None and runs no analysis; clean_data is set only when raw_data *)
(* is set; the cleaning never changes raw_data.                            *)
C26_Guards ==
    [][/\ (out'.op = "clean_and_preprocess_data" /\ raw_data.is_none) =>
              /\ out'.ret = "False"
              /\ clean_data' = clean_data
       /\ (out'.op = "generate_report" /\ clean_data.is_none) =>
              /\ out'.ret = "None"
              /\ out'.error = ""
              /\ out'.printed = <<>>
              /\ UNCHANGED <<raw_data, clean_data, sort_kernel>>
       /\ ~clean_data'.is_none => ~raw_data'.is_none
       /\ out'.op = "clean_and_preprocess_data" => raw_data' = raw_data
      ]_vars

(* The report was asked of an analyzer that has loaded a statement with a  *)
(* row and has not cleaned it.                                             *)
C26_Witness ==
    /\ out.op = "generate_report"
    /\ out.ret = "None"
    /\ clean_data.is_none
    /\ ~raw_data.is_none
    /\ raw_data.rows # <<>>

----------------------------------------------------------------------------
(* The direction of a transaction. *)

(* C27: the direction is decided by the income first and never by the sign *)
(* of the net amount: a transaction with income > 0 is an Income, also     *)
(* when its expense is larger, and a transaction is an Expense exactly     *)
(* when its income is not > 0 and its expense is > 0.                      *)
C27_IncomeFirst ==
    \A t \in Transactions :
        /\ t.income > 0 => t.direction = "Income"
        /\ t.direction = "Expense" <=> (~(t.income > 0) /\ t.expense > 0)

(* A transaction with an income and a larger expense is an Income with a   *)
(* negative net amount.                                                    *)
C27_Witness ==
    \E t \in Transactions :
        /\ t.income > 0
        /\ t.expense > t.income
        /\ t.net_amount < 0
        /\ t.direction = "Income"

----------------------------------------------------------------------------
(* The counterparty buckets. *)

(* C28: every transaction with a positive amount, also one without a       *)
(* counterparty, is in exactly one counterparty bucket, so that the sums   *)
(* and the counts of the buckets add up to those of the positive amounts   *)
(* (the statements have fewer than ten counterparties, so the table is not *)
(* cut).                                                                   *)
C28_CounterpartyPartition ==
    (out.op = "analyze_counterparty_patterns" /\ out.error = "") =>
        /\ FieldSum(out.ret.income_counterparties, "total")
              = sum_income(income_rows(clean_data.rows))
        /\ FieldSum(out.ret.income_counterparties, "count")
              = Len(income_rows(clean_data.rows))
        /\ FieldSum(out.ret.expense_counterparties, "total")
              = sum_expense(expense_rows(clean_data.rows))
        /\ FieldSum(out.ret.expense_counterparties, "count")
              = Len(expense_rows(clean_data.rows))

----------------------------------------------------------------------------
(* The yearly buckets and their growth comparisons. *)

(* The growth lines that the call printed, in their order. *)
GrowthSequence ==
    LET lines == SelectSeq(out.printed, LAMBDA p : p[1] = "growth")
    IN  [k \in 1..Len(lines) |-> lines[k][2]]

(* The yearly table has one bucket for every year of clean_data, in rising *)
(* order of the years, and there is one growth line for every bucket after *)
(* the first, which compares it with the bucket before it.                 *)
YearlyBucketsAndNeighbours ==
    /\ {out.ret[k].key : k \in 1..Len(out.ret)} = {t.year : t \in Transactions}
    /\ \A k \in 1..(Len(out.ret) - 1) : out.ret[k].key < out.ret[k + 1].key
    /\ Len(GrowthSequence) = (IF out.ret = <<>> THEN 0 ELSE Len(out.ret) - 1)
    /\ \A k \in 1..Len(GrowthSequence) :
          /\ GrowthSequence[k].prev_year = out.ret[k].key
          /\ GrowthSequence[k].curr_year = out.ret[k + 1].key

(* C29 as stated: analyze_yearly_trends has one bucket per year of         *)
(* clean_data, ascending, and one growth comparison for every pair of      *)
(* neighbouring buckets, and every comparison is between a year Y and the  *)
(* year Y + 1, also when the data skips a year.                            *)
C29_CalendarConsecutive ==
    Called("analyze_yearly_trends") =>
        /\ YearlyBucketsAndNeighbours
        /\ \A k \in 1..Len(GrowthSequence) :
              GrowthSequence[k].curr_year = GrowthSequence[k].prev_year + 1

(* C29 as amended: analyze_yearly_trends has one bucket per year of        *)
(* clean_data, ascending, and one growth comparison for every pair of      *)
(* neighbouring buckets: a year is compared with the latest earlier year   *)
(* that has a transaction, which is the year before it only when the data  *)
(* skips no year.                                                          *)
C29_NeighbouringBuckets ==
    Called("analyze_yearly_trends") =>
        /\ YearlyBucketsAndNeighbours
        /\ \A k \in 1..Len(GrowthSequence) :
              /\ GrowthSequence[k].prev_year < GrowthSequence[k].curr_year
              /\ \A t \in Transactions :
                    ~(/\ GrowthSequence[k].prev_year < t.year
                      /\ t.year < GrowthSequence[k].curr_year)

(* The data has transactions of 2023 and of 2025 and none of 2024, and the *)
(* one growth line compares 2025 with 2023.                                *)
C29_Witness ==
    /\ Called("analyze_yearly_trends")
    /\ {t.year : t \in Transactions} = {2023, 2025}
    /\ Len(GrowthSequence) = 1
    /\ GrowthSequence[1].prev_year = 2023
    /\ GrowthSequence[1].curr_year = 2025

====
